---------------------------- MODULE Spec2Model ----------------------------
(***************************************************************************)
(* Model of the py3dbl placement engine: geometry (Space.py), bins         *)
(* (Bin.py), constraints (Constraints.py), and the two packers and their   *)
(* driver loops (Packer.py).                                               *)
(*                                                                         *)
(* Numbers.  The code computes with decimal.Decimal under the default      *)
(* context.  Weights are integers.  A length held in the state (a size or  *)
(* a position) is an integer that counts HALF units of the code: Item and  *)
(* BinModel take their sizes in the code's units and store them doubled,   *)
(* so that the centre anchor (bin.width - item.width) / 2 of an integer    *)
(* bin and item is a length the state can hold, and every other position   *)
(* (a pivot, a mirror, an adjacent anchor) is a sum or difference of such  *)
(* lengths.  Numbers the code returns (areas, volumes, centres of gravity, *)
(* tolerances) are in the code's units.  Areas and support ratios are      *)
(* exact fractions <<numerator, denominator>>, positive denominator,       *)
(* lowest terms.  The arithmetic of the centre of gravity is Decimal       *)
(* arithmetic: each operation rounds to 28 significant digits, half to     *)
(* even.  The scores of the multi-anchor packer are binary floats (IEEE    *)
(* 754 doubles): each operation rounds to 53 significant bits, half to     *)
(* even.                                                                   *)
(*                                                                         *)
(* Objects.  Items are objects that bins and lists refer to: heap maps an  *)
(* item's identity to its fields, and every list of items is a sequence of *)
(* identities.  Vectors are triples indexed 1..3 for the axes x, y, z      *)
(* (axis 0, 1, 2 of the code).  The anchors of the multi-anchor packer are *)
(* a set object of the interpreter (CPython 3.11): a hash table, iterated  *)
(* in the order of its slots.                                              *)
(***************************************************************************)
EXTENDS Integers, Sequences, FiniteSets, TLC

VARIABLES
    pc,                     \* control point of Packer.pack / of the driver loop
    strategy,               \* Packer.pack argument
    constraints,            \* the constraint list (names, in list order)
    available_bins,         \* Packer.bins, the fleet (list of bin models)
    default_bin,            \* Packer.default_bin (NoModel for None)
    items,                  \* Packer.items (list of item identities)
    heap,                   \* item identity -> [size, position, weight]
    items_to_pack,          \* driver local
    unfitted_items,         \* driver local
    current_configuration,  \* driver local, then Packer.current_configuration
    bin,                    \* driver local: the bin being filled (NoBin before)
    idx,                    \* position of the for loop over items_to_pack
    last                    \* the call the last step made on a bin (NoCall if none):
                            \* its item and result, the item and the bin before it

vars == <<pc, strategy, constraints, available_bins, default_bin, items, heap,
          items_to_pack, unfitted_items, current_configuration, bin, idx, last>>

---------------------------------------------------------------------------
(* Bounds of the model *)

MaxItems == 3
MaxCalls == 3

---------------------------------------------------------------------------
(* Helpers *)

Abs(n) == IF n < 0 THEN -n ELSE n
Max(a, b) == IF a >= b THEN a ELSE b
Min(a, b) == IF a <= b THEN a ELSE b
Range(s) == {s[k] : k \in 1..Len(s)}

RECURSIVE SumSeq(_)
SumSeq(s) == IF s = <<>> THEN 0 ELSE Head(s) + SumSeq(Tail(s))

MaxOf(S) == CHOOSE m \in S : \A n \in S : n <= m

\* the elements of a finite set of integers, highest first: sorted(S, reverse=True)
RECURSIVE SortedDesc(_)
SortedDesc(S) == IF S = {} THEN <<>> ELSE <<MaxOf(S)>> \o SortedDesc(S \ {MaxOf(S)})

\* exact fractions <<n, d>>, d > 0
RECURSIVE GCD(_, _)
GCD(m, n) == IF n = 0 THEN m ELSE GCD(n, m % n)
\* a fraction in lowest terms
Reduced(n, d) == LET g == GCD(Abs(n), d) IN <<n \div g, d \div g>>
Frac(n, d) == <<n, d>>
FAdd(a, b) == Reduced(a[1] * b[2] + b[1] * a[2], a[2] * b[2])
FSub(a, b) == Reduced(a[1] * b[2] - b[1] * a[2], a[2] * b[2])
FMul(a, b) == Reduced(a[1] * b[1], a[2] * b[2])
FDivInt(a, k) == Reduced(a[1], a[2] * k)        \* k > 0
FAbs(a) == <<Abs(a[1]), a[2]>>
FLe(a, b) == a[1] * b[2] <= b[1] * a[2]
FLt(a, b) == a[1] * b[2] < b[1] * a[2]
FEq(a, b) == a[1] * b[2] = b[1] * a[2]

\* a * 10^k
RECURSIVE FScale10(_, _)
FScale10(a, k) == IF k = 0 THEN a
                  ELSE IF k > 0 THEN FScale10(Reduced(10 * a[1], a[2]), k - 1)
                  ELSE FScale10(Reduced(a[1], 10 * a[2]), k + 1)

\* the sum of a sequence of fractions
RECURSIVE FSum(_)
FSum(s) == IF s = <<>> THEN Frac(0, 1) ELSE FAdd(Head(s), FSum(Tail(s)))

\* lengths: the state counts half units, the code's numbers are in whole units
HalfUnits(v) == <<2 * v[1], 2 * v[2], 2 * v[3]>>
Length(n) == Reduced(n, 2)

---------------------------------------------------------------------------
(* decimal.Decimal, default context: 28 significant digits, ROUND_HALF_EVEN *)

\* A Decimal is held as [r, e], two fractions: its value is r + e * 10^-28.  r is
\* the value the computation would have without rounding and e the offset the
\* roundings have left, in units of the 28th decimal place.  The operations the
\* code applies to rounded values are sums, differences, and products and
\* quotients by numbers that carry no offset, so r and e are both exact.
Dec(f) == [r |-> f, e |-> Frac(0, 1)]
DInt(n) == Dec(Frac(n, 1))
DNeg(v) == [r |-> <<- v.r[1], v.r[2]>>, e |-> <<- v.e[1], v.e[2]>>]

\* Decimal.adjusted() of the positive fraction n / d: the exponent of its first digit
RECURSIVE adjusted(_, _)
adjusted(n, d) == IF n >= 10 * d THEN adjusted(n, 10 * d) + 1
                  ELSE IF n < d THEN adjusted(10 * n, d) - 1
                  ELSE 0

\* (x * 10^j) % m
RECURSIVE PowMod(_, _, _)
PowMod(x, j, m) == IF j = 0 THEN x % m ELSE PowMod((10 * x) % m, j - 1, m)

\* the element of a singleton.  Value({f(x) : x \in {a}}) is f(a) with the operand a
\* computed once, before f, as the interpreter computes it
Value(S) == CHOOSE x \in S : TRUE

\* the exponent of the first digit of r + e * 10^-28, r > 0: a power of ten with a
\* negative offset starts one digit lower
first_digit(v) ==
    Value({IF FScale10(v.r, - top) = Frac(1, 1) /\ v.e[1] < 0 THEN top - 1 ELSE top :
               top \in {adjusted(v.r[1], v.r[2])}})

\* the number t rounded to an integer, half to even; par is the parity of the integer
\* that t is added to
half_even(t, par) ==
    Value({IF 2 * (t[1] - k * t[2]) > t[2]
              \/ (2 * (t[1] - k * t[2]) = t[2] /\ (par + k) % 2 = 1)
           THEN k + 1 ELSE k : k \in {t[1] \div t[2]}})

\* the rounding of r + e * 10^-28, r > 0, to 28 significant digits.  With A the
\* exponent of the first digit, the last digit kept stands at 10^(A - 27): the value
\* counts floor(r * 10^(27 - A)) + t such units, where t is what r leaves over (the
\* fraction rem / q) plus the offset, and t is rounded half to even; R holds rem and the
\* parity of the floor.
DRoundAt(v, A, R) ==
    Value({[r |-> v.r,
            e |-> FScale10(FSub(Frac(half_even(t, R \div v.r[2]), 1),
                                Reduced(R % v.r[2], v.r[2])), A + 1)] :
               t \in {FAdd(Reduced(R % v.r[2], v.r[2]), FScale10(v.e, - 1 - A))}})

DRoundPos(v) ==
    Value({Value({DRoundAt(v, A, R) : R \in {PowMod(v.r[1], 27 - A, 2 * v.r[2])}}) :
               A \in {first_digit(v)}})

\* a value with no offset and at most four decimal places is a Decimal as it stands
DRounded(v) ==
    IF v.r[1] = 0 THEN v
    ELSE IF v.e[1] = 0 /\ 10000 % v.r[2] = 0 THEN v
    ELSE Value({IF v.r[1] < 0 THEN DNeg(x) ELSE x :
                    x \in {DRoundPos(IF v.r[1] < 0 THEN DNeg(v) ELSE v)}})

DRound(v) == Value({DRounded(x) : x \in {v}})

\* The arithmetic of the context the program runs under (decimal.getcontext(), never
\* changed by the code): context(op, args) is the result of the operation op on args.
\* A Decimal computation of Constraints.py is entered through the context as well, so
\* that it and the operations it applies are evaluated as one unit.
RECURSIVE context(_, _)

DAdd(a, b) == context("add", <<a, b>>)
DSub(a, b) == context("subtract", <<a, b>>)
\* a product one factor of which carries no offset
DMul(a, b) == context("multiply", <<a, b>>)
\* a quotient by the non-zero number k that carries no offset
DDiv(a, k) == context("divide", <<a, k>>)
DAbs(v) == Value({IF x.r[1] < 0 \/ (x.r[1] = 0 /\ x.e[1] < 0) THEN DNeg(x) ELSE x : x \in {v}})
DLt(a, b) == \E x \in {a}, y \in {b} : FLt(x.r, y.r) \/ (x.r = y.r /\ FLt(x.e, y.e))
DLe(a, b) == ~ DLt(b, a)

---------------------------------------------------------------------------
(* Natural numbers of any size *)

\* A natural number is held as the sequence of its digits in base 2^14, lowest first,
\* without leading zeros: X stands for the sum of X[k] * Base^(k - 1), <<>> for 0.
Base == 16384

\* the sequence f[1], .., f[n] of the function f on 1..n, each element computed once
List(f) == f \o <<>>

\* the digits of n < 2^31
Limbs(n) ==
    IF n = 0 THEN <<>>
    ELSE IF n < Base THEN <<n>>
    ELSE IF n < Base * Base THEN <<n % Base, n \div Base>>
    ELSE <<n % Base, (n \div Base) % Base, n \div (Base * Base)>>

Limb(X, k) == IF k <= Len(X) THEN X[k] ELSE 0

\* X without its leading zeros
Trim(X) ==
    LET used == {k \in 1..Len(X) : X[k] # 0}
    IN  IF used = {} THEN <<>>
        ELSE SubSeq(X, 1, CHOOSE k \in used : \A j \in used : j <= k)

\* the number whose digit k is C[k] plus the carry of the digits below it
Carry(C) ==
    LET carry[k \in 0..Len(C)] == IF k = 0 THEN 0 ELSE (C[k] + carry[k - 1]) \div Base
    IN  Trim(List([k \in 1..Len(C) |-> (C[k] + carry[k - 1]) % Base]) \o Limbs(carry[Len(C)]))

LAdd(X, Y) == Carry(List([k \in 1..Max(Len(X), Len(Y)) |-> Limb(X, k) + Limb(Y, k)]))

\* X * Y, one of the two of at most 7 digits
LMul(X, Y) ==
    LET column(k) ==
            LET sum[j \in 0..Len(X)] ==
                    IF j = 0 THEN 0
                    ELSE sum[j - 1] + (IF k - j + 1 >= 1 /\ k - j + 1 <= Len(Y)
                                       THEN X[j] * Y[k - j + 1] ELSE 0)
            IN  sum[Len(X)]
    IN  IF X = <<>> \/ Y = <<>> THEN <<>>
        ELSE Carry(List([k \in 1..(Len(X) + Len(Y) - 1) |-> column(k)]))

\* X - 1, X > 0
LPred(X) ==
    LET low == CHOOSE k \in 1..Len(X) : X[k] # 0 /\ \A j \in 1..(k - 1) : X[j] = 0
    IN  Trim(List([k \in 1..Len(X) |-> IF k < low THEN Base - 1
                                      ELSE IF k = low THEN X[k] - 1 ELSE X[k]]))

\* 2^s
LPow2(s) == List([k \in 1..((s \div 14) + 1) |-> IF k = (s \div 14) + 1 THEN 2 ^ (s % 14) ELSE 0])

\* X * 2^s
LShiftLeft(X, s) == LMul(X, LPow2(s))

\* floor(X / 2^s)
LShiftRight(X, s) ==
    LET a == s \div 14
        b == s % 14
    IN  IF Len(X) <= a THEN <<>>
        ELSE Trim(List([k \in 1..(Len(X) - a) |->
                          (X[k + a] \div (2 ^ b)) + (Limb(X, k + a + 1) % (2 ^ b)) * (2 ^ (14 - b))]))

\* X % 2^s
LLow(X, s) ==
    LET a == s \div 14
        b == s % 14
    IN  IF Len(X) <= a THEN X
        ELSE Trim(List([k \in 1..(a + 1) |-> IF k <= a THEN X[k] ELSE X[k] % (2 ^ b)]))

\* the number of binary digits of X
LBits(X) ==
    IF X = <<>> THEN 0
    ELSE 14 * (Len(X) - 1) + (CHOOSE n \in 1..14 : 2 ^ (n - 1) <= X[Len(X)] /\ X[Len(X)] < 2 ^ n)

\* X < Y
LLess(X, Y) ==
    IF Len(X) # Len(Y) THEN Len(X) < Len(Y)
    ELSE \E k \in 1..Len(X) : X[k] < Y[k] /\ \A j \in (k + 1)..Len(X) : X[j] = Y[j]

\* divmod(X, q) for 0 < q < 2^17
LDivMod(X, q) ==
    LET rem[k \in 1..(Len(X) + 1)] ==
            IF k = Len(X) + 1 THEN 0 ELSE (rem[k + 1] * Base + X[k]) % q
    IN  [q |-> Trim(List([k \in 1..Len(X) |-> (rem[k + 1] * Base + X[k]) \div q])),
         r |-> rem[1]]

\* the number written with the decimal digit groups G, four digits a group, highest
\* first: LDecimal(<<12, 3456>>) is 123456
LDecimal(G) ==
    LET val[k \in 0..Len(G)] ==
            IF k = 0 THEN <<>> ELSE LAdd(LMul(val[k - 1], Limbs(10000)), Limbs(G[k]))
    IN  val[Len(G)]

---------------------------------------------------------------------------
(* float: IEEE 754 binary64, round to nearest, ties to even *)

\* A float that is not negative is held as [m, e]: it is m * 2^e, with
\* 2^52 <= m < 2^53, or m = 0 and e = 0 for 0.0; inf is float('inf').
zero == [m |-> <<>>, e |-> 0]
inf == [m |-> <<>>, e |-> 1024]

\* the float nearest to X * 2^e, X > 0
float_round(X, e) ==
    LET L == LBits(X)
        s == L - 53
        q == LShiftRight(X, s)
        r == LLow(X, s)
        half == LPow2(s - 1)
        up == LLess(half, r) \/ (r = half /\ q[1] % 2 = 1)
        n == IF up THEN LAdd(q, <<1>>) ELSE q
    IN  IF L <= 53 THEN [m |-> LShiftLeft(X, 53 - L), e |-> e - (53 - L)]
        ELSE IF LBits(n) = 54 THEN [m |-> LShiftRight(n, 1), e |-> e + s + 1]
        ELSE [m |-> n, e |-> e + s]

\* a * b and a + b
float_mul(a, b) ==
    IF a.m = <<>> \/ b.m = <<>> THEN zero ELSE float_round(LMul(a.m, b.m), a.e + b.e)

float_add(a, b) ==
    IF a.m = <<>> THEN b
    ELSE IF b.m = <<>> THEN a
    ELSE float_round(LAdd(LShiftLeft(a.m, a.e - Min(a.e, b.e)),
                          LShiftLeft(b.m, b.e - Min(a.e, b.e))), Min(a.e, b.e))

\* a < b
float_less(a, b) ==
    IF a = inf THEN FALSE
    ELSE IF b = inf THEN TRUE
    ELSE IF b.m = <<>> THEN FALSE
    ELSE IF a.m = <<>> THEN TRUE
    ELSE IF a.e # b.e THEN a.e < b.e
    ELSE LLess(a.m, b.m)

\* the float nearest to p / q, 0 <= p, 0 < q < 2^17: the first 71 binary places of the
\* quotient and a last place that tells whether anything follows them
float_div(p, q) ==
    LET d == LDivMod(LShiftLeft(Limbs(p), 70), q)
    IN  IF p = 0 THEN zero
        ELSE float_round(LAdd(LShiftLeft(d.q, 1), Limbs(IF d.r # 0 THEN 1 ELSE 0)), -71)

---------------------------------------------------------------------------
(* hash() of a tuple of two numbers, and the table of a set (CPython 3.11) *)

\* hash(Decimal) of the length c, which counts half units: an integer n < 2^61 - 1 is
\* its own hash, and the hash of (2 j + 1) / 2 is (2 j + 1) * 2^-1 mod (2^61 - 1),
\* which is 2^60 + j
number_hash(c) == IF c % 2 = 0 THEN Limbs(c \div 2) ELSE LAdd(LPow2(60), Limbs(c \div 2))

\* _PyHASH_XXPRIME_1, _PyHASH_XXPRIME_2, _PyHASH_XXPRIME_5
XXPRIME_1 == LDecimal(<<1140, 714, 7850, 7469, 4791>>)
XXPRIME_2 == LDecimal(<<1402, 9467, 3668, 9701, 9727>>)
XXPRIME_5 == LDecimal(<<287, 177, 4500, 1260, 261>>)
\* len ^ (_PyHASH_XXPRIME_5 ^ 3527539) for len = 2
XXLENGTH_2 == LDecimal(<<287, 177, 4500, 1347, 1924>>)

\* _PyHASH_XXROTATE: ((x << 31) | (x >> 33)) of a 64-bit acc
XXROTATE(acc) == LAdd(LLow(LShiftLeft(acc, 31), 64), LShiftRight(acc, 33))

\* one round of tuplehash: acc += lane * XXPRIME_2; acc = XXROTATE(acc); acc *= XXPRIME_1
tuplehash_round(acc, lane) ==
    LLow(LMul(XXROTATE(LLow(LAdd(acc, LMul(lane, XXPRIME_2)), 64)), XXPRIME_1), 64)

\* tuplehash of the pair a of lengths, as an unsigned 64-bit number
tuplehash(a) ==
    LET acc == LLow(LAdd(tuplehash_round(tuplehash_round(XXPRIME_5, number_hash(a[1])),
                                         number_hash(a[2])), XXLENGTH_2), 64)
    IN  IF acc = LPred(LPow2(64)) THEN LDecimal(<<15, 4627, 5796>>) ELSE acc

\* tuplehash of the pairs of lengths up to CachedX and CachedZ (half units), computed once
CachedX == 50
CachedZ == 20
hash == List([n \in 1..((CachedX + 1) * (CachedZ + 1)) |->
                 tuplehash(<<(n - 1) \div (CachedZ + 1), (n - 1) % (CachedZ + 1)>>)])

\* hash((x, z)) of a pair of lengths that are not negative
tuple_hash(a) ==
    IF a[1] <= CachedX /\ a[2] <= CachedZ THEN hash[a[1] * (CachedZ + 1) + a[2] + 1]
    ELSE tuplehash(a)

\* A set object is [mask, fill, table]: the table has mask + 1 slots, slot n held at
\* table[n + 1]; a slot is <<>> when unused and <<key, hash>> otherwise.  No key is
\* ever removed from the sets of the program.
set_new == [mask |-> 7, fill |-> 0, table |-> <<<<>>, <<>>, <<>>, <<>>, <<>>, <<>>, <<>>, <<>>>>]

\* (hash >> (5 * j)) & mask, mask < 2^14
perturb(H, j, mask) ==
    LET a == (5 * j) \div 14
        b == (5 * j) % 14
    IN  ((Limb(H, a + 1) \div (2 ^ b)) + Limb(H, a + 2) * (2 ^ (14 - b))) % (mask + 1)

\* the probe sequence of set_add_entry from slot i, after j shifts of perturb: the slot
\* that holds the key, or the unused slot the key goes to
RECURSIVE set_lookkey(_, _, _, _, _, _)
set_lookkey(table, mask, key, H, i, j) ==
    LET probes == IF i + 9 <= mask THEN 9 ELSE 0
        found == {n \in 0..probes : table[i + n + 1] = <<>> \/ table[i + n + 1][1] = key}
    IN  IF found # {} THEN i + (CHOOSE n \in found : \A m \in found : n <= m)
        ELSE set_lookkey(table, mask, key, H,
                         (i * 5 + 1 + perturb(H, j + 1, mask)) % (mask + 1), j + 1)

\* the slot of the key with hash H in the table
set_slot(table, mask, key, H) == set_lookkey(table, mask, key, H, H[1] % (mask + 1), 0)

\* the entries in slot order, and iter(s): the keys in slot order
set_entries(s) == SelectSeq(s.table, LAMBDA entry : entry # <<>>)
set_iter(s) == Value({List([k \in 1..Len(E) |-> E[k][1]]) : E \in {set_entries(s)}})

\* set_insert_clean of the entries lo..hi of the list into the table new, in list order
RECURSIVE set_insert_clean(_, _, _, _, _)
set_insert_clean(new, mask, entries, lo, hi) ==
    IF lo > hi THEN new
    ELSE IF lo = hi
    THEN [new EXCEPT ![set_slot(new, mask, entries[lo][1], entries[lo][2]) + 1] = entries[lo]]
    ELSE Value({set_insert_clean(t, mask, entries, ((lo + hi) \div 2) + 1, hi) :
                    t \in {set_insert_clean(new, mask, entries, lo, (lo + hi) \div 2)}})

\* the smallest size 8 * 2^k above minused
RECURSIVE set_size(_, _)
set_size(n, minused) == IF n <= minused THEN set_size(2 * n, minused) ELSE n

\* set_table_resize
set_table_resize(s, minused) ==
    LET n == set_size(8, minused)
    IN  [mask |-> n - 1, fill |-> s.fill,
         table |-> set_insert_clean(List([k \in 1..n |-> <<>>]), n - 1, set_entries(s), 1, s.fill)]

\* set.add(key), H the hash of the key
set_add_entry(s, key, H) ==
    LET slot == set_slot(s.table, s.mask, key, H)
        added == [s EXCEPT !.table[slot + 1] = <<key, H>>, !.fill = @ + 1]
    IN  IF s.table[slot + 1] # <<>> THEN s
        ELSE IF added.fill * 5 >= added.mask * 3 THEN set_table_resize(added, added.fill * 4)
        ELSE added

\* the set after set.add of the keys lo..hi of the list, in list order
RECURSIVE set_add_all(_, _, _, _)
set_add_all(s, keys, lo, hi) ==
    IF lo > hi THEN s
    ELSE IF lo = hi THEN set_add_entry(s, keys[lo], tuple_hash(keys[lo]))
    ELSE Value({set_add_all(t, keys, ((lo + hi) \div 2) + 1, hi) :
                    t \in {set_add_all(s, keys, lo, (lo + hi) \div 2)}})

---------------------------------------------------------------------------
(* Space.py *)

\* Vector3.rotate90
rotate90(vect, orizontal, vertical) ==
    LET h == IF orizontal THEN <<vect[3], vect[2], vect[1]>> ELSE vect
    IN  IF vertical THEN <<h[1], h[3], h[2]>> ELSE h

\* Volume.volume (eight cubes of half a unit make one unit of volume)
volume(size) == (size[1] * size[2] * size[3]) \div 8

\* rect_intersect: cx = position + d/2 on each axis, overlap = max(0, (d1+d2)/2 - |cx2-cx1|).
\* (d1+d2)/2 - |cx2-cx1| = ((d1+d2) - |(2 p2 + d2) - (2 p1 + d1)|) / 2, whose numerator is even.
\* overlap_on is a length in half units, rect_intersect the area in the code's units.
overlap_on(v1, v2, a) ==
    Max(0, ((v1.size[a] + v2.size[a])
            - Abs((2 * v2.position[a] + v2.size[a]) - (2 * v1.position[a] + v1.size[a]))) \div 2)

rect_intersect(v1, v2, x, y) == Reduced(Abs(overlap_on(v1, v2, x) * overlap_on(v1, v2, y)), 4)

\* an intersection test that looks at the (x, y) plane only
intersect_xy(v1, v2) == rect_intersect(v1, v2, 1, 2) # Frac(0, 1)

intersect(v1, v2) ==
    /\ rect_intersect(v1, v2, 1, 2) # Frac(0, 1)
    /\ rect_intersect(v1, v2, 2, 3) # Frac(0, 1)
    /\ rect_intersect(v1, v2, 1, 3) # Frac(0, 1)

---------------------------------------------------------------------------
(* Item (its volume, position and dimensions are those of its Volume) *)

\* an item of the given size (in the code's units) at the origin
Item(size, weight) == [size |-> HalfUnits(size), position |-> <<0, 0, 0>>, weight |-> weight]

item_volume(it) == [position |-> it.position, size |-> it.size]

---------------------------------------------------------------------------
(* Bin.py *)

\* a bin model of the given size (in the code's units)
BinModel(name, size, max_weight) ==
    [name |-> name, size |-> HalfUnits(size), max_weight |-> max_weight]

NoModel == BinModel("None", <<0, 0, 0>>, 0)

model_volume(m) == (m.size[1] * m.size[2] * m.size[3]) \div 8

\* Bin.__init__
Bin(id, model) == [id |-> id, model |-> model, weight |-> 0, items |-> <<>>]

NoBin == Bin(-1, NoModel)

\* center_x = item.position.x + (item.width / Decimal(2)), for the axis a
item_center(it, a) == DAdd(Dec(Length(it.position[a])), DDiv(Dec(Length(it.size[a])), DInt(2)))

\* moment_x += center_x * item.weight over the first n items of the bin
RECURSIVE moment(_, _, _, _)
moment(h, b, a, n) ==
    IF n = 0 THEN DInt(0)
    ELSE DAdd(moment(h, b, a, n - 1),
              DMul(item_center(h[b.items[n]], a), DInt(h[b.items[n]].weight)))

\* Vector3(self.width / 2, self.height / 2, self.depth / 2)
bin_middle(b) == [a \in 1..3 |-> DDiv(Dec(Length(b.model.size[a])), DInt(2))]

\* a centre of gravity taken at the corners of the items instead of their centres
calculate_center_of_gravity_corner(h, b) ==
    LET corner_moment(a) == SumSeq([k \in 1..Len(b.items) |->
                                h[b.items[k]].position[a] * h[b.items[k]].weight])
    IN  IF b.weight = 0
        THEN bin_middle(b)
        ELSE [a \in 1..3 |-> DDiv(Dec(Length(corner_moment(a))), DInt(b.weight))]

\* a centre of gravity that is the plain mean of the centres of the items
calculate_center_of_gravity_unweighted(h, b) ==
    LET total(a) == SumSeq([k \in 1..Len(b.items) |->
                        2 * h[b.items[k]].position[a] + h[b.items[k]].size[a]])
    IN  IF b.weight = 0
        THEN bin_middle(b)
        ELSE [a \in 1..3 |-> DDiv(Dec(Reduced(total(a), 4)), DInt(Len(b.items)))]

\* Bin.calculate_center_of_gravity: the three coordinates as Decimals
calculate_center_of_gravity(h, b) ==
    IF b.weight = 0
    THEN bin_middle(b)
    ELSE [a \in 1..3 |-> DDiv(moment(h, b, a, Len(b.items)), DInt(b.weight))]

---------------------------------------------------------------------------
(* Constraints.py *)

ConstraintNames == {"weight_within_limit", "fits_inside_bin", "no_overlap",
                    "is_supported", "maintain_center_of_gravity"}

\* the weight given to each constraint by its @constraint decorator
constraint_weight(c) ==
    CASE c = "weight_within_limit" -> 5
      [] c = "fits_inside_bin" -> 10
      [] c = "no_overlap" -> 15
      [] c = "is_supported" -> 20
      [] c = "maintain_center_of_gravity" -> 25

\* list.sort() / sorted() with Constraint.__lt__: stable, ascending weight
RECURSIVE sort_constraints(_)
InsertByWeight(c, s) ==
    LET k == Cardinality({j \in 1..Len(s) : constraint_weight(s[j]) <= constraint_weight(c)})
    IN  SubSeq(s, 1, k) \o <<c>> \o SubSeq(s, k + 1, Len(s))
sort_constraints(s) ==
    IF s = <<>> THEN <<>>
    ELSE InsertByWeight(s[Len(s)], sort_constraints(SubSeq(s, 1, Len(s) - 1)))

\* a weight check that forgets the load already in the bin
weight_within_limit_item_only(h, b, i) == h[i].weight <= b.model.max_weight

weight_within_limit(h, b, i) == b.weight + h[i].weight <= b.model.max_weight

\* a containment check that forgets the depth
fits_inside_bin_xy(h, b, i) ==
    \A a \in 1..2 : b.model.size[a] >= h[i].position[a] + h[i].size[a]

fits_inside_bin(h, b, i) ==
    \A a \in 1..3 : b.model.size[a] >= h[i].position[a] + h[i].size[a]

\* an overlap check against the first item of the bin only
no_overlap_first(h, b, i) ==
    \/ Len(b.items) = 0
    \/ ~ intersect(item_volume(h[b.items[1]]), item_volume(h[i]))

no_overlap(h, b, i) ==
    \/ Len(b.items) = 0
    \/ ~ \E k \in 1..Len(b.items) : intersect(item_volume(h[b.items[k]]), item_volume(h[i]))

\* minimum_support = 0.75 = MinSupportNum / MinSupportDen
MinSupportNum == 3
MinSupportDen == 4

\* the contact area is_supported adds up
contact_area(h, b, i) ==
    FSum([k \in 1..Len(b.items) |->
        IF h[b.items[k]].position[2] + h[b.items[k]].size[2] = h[i].position[2]
        THEN rect_intersect(item_volume(h[b.items[k]]), item_volume(h[i]), 1, 3)
        ELSE Frac(0, 1)])

\* support_ratio >= 0.75 is decided on the exact quotient: 0.75 is a Decimal, so the
\* rounding of contact_area / item_base_area never carries the quotient across it
is_supported(h, b, i) ==
    LET item_base_area == Reduced(h[i].size[1] * h[i].size[3], 4)
    IN  IF h[i].position[2] = 0 THEN TRUE
        ELSE IF item_base_area[1] <= 0 THEN FALSE
        ELSE FLe(FMul(Frac(MinSupportNum, MinSupportDen), item_base_area),
                 contact_area(h, b, i))

\* maintain_center_of_gravity, defaults tol_x_percent = tol_z_percent = 0.2,
\* progressive_tightening = 0.7; bin centre on Z at 0.4 of the depth
TolPercent == Frac(2, 10)
Tightening == Frac(7, 10)
ZTarget == Frac(4, 10)

\* load_ratio = future_weight / bin.max_weight
load_ratio_of(w, b) == IF b.model.max_weight > 0 THEN DDiv(DInt(w), DInt(b.model.max_weight))
                       ELSE DInt(0)

\* the effective tolerance on axis a at the load w:
\* scale = Decimal(1) - load_ratio * tightening; tol = bin.width * Decimal('0.2') * scale
effective_tol(b, w, a) ==
    LET scale == DSub(DInt(1), DMul(load_ratio_of(w, b), Dec(Tightening)))
    IN  DMul(DMul(Dec(Length(b.model.size[a])), Dec(TolPercent)), scale)

\* bin_center_x = bin.width / Decimal(2); bin_center_z = bin.depth * Decimal('0.4')
bin_center(b, a) == IF a = 3 THEN DMul(Dec(Length(b.model.size[3])), Dec(ZTarget))
                    ELSE DDiv(Dec(Length(b.model.size[a])), DInt(2))

\* division by future_weight raises when it is zero
cog_raises(h, b, i) == b.weight + h[i].weight = 0

\* the prospective centre of gravity on axis a (future_cog_x, future_cog_z)
future_cog(h, b, i, a) ==
    LET current_cog    == calculate_center_of_gravity(h, b)
        current_moment == DMul(current_cog[a], DInt(b.weight))
        item_moment    == DMul(item_center(h[i], a), DInt(h[i].weight))
    IN  DDiv(DAdd(current_moment, item_moment), DInt(b.weight + h[i].weight))

\* the locals of maintain_center_of_gravity, each computed once: the tolerances, the
\* deviation of the prospective centre of gravity and that of the current one, on X
\* and on Z
cog_locals(h, b, i) ==
    [tol         |-> [a \in {1, 3} |-> effective_tol(b, b.weight + h[i].weight, a)],
     future_dev  |-> [a \in {1, 3} |-> DAbs(DSub(future_cog(h, b, i, a), bin_center(b, a)))],
     current_dev |-> [a \in {1, 3} |->
                         DAbs(DSub(calculate_center_of_gravity(h, b)[a], bin_center(b, a)))]]

\* current_dev > tol / 2 and future_dev > current_dev on the axis a
worse(l, a) ==
    /\ DLt(DDiv(l.tol[a], DInt(2)), l.current_dev[a])
    /\ DLt(l.current_dev[a], l.future_dev[a])

\* a centre-of-gravity check with the hard reject only
maintain_center_of_gravity_no_bias(h, b, i) ==
    \E l \in {cog_locals(h, b, i)} :
        IF DLt(l.tol[1], l.future_dev[1]) THEN FALSE
        ELSE IF DLt(l.tol[3], l.future_dev[3]) THEN FALSE
        ELSE TRUE

maintain_center_of_gravity(h, b, i) ==
    \E l \in {cog_locals(h, b, i)} :
        IF DLt(l.tol[1], l.future_dev[1]) THEN FALSE
        ELSE IF DLt(l.tol[3], l.future_dev[3]) THEN FALSE
        ELSE IF b.weight > 0 /\ worse(l, 1) THEN FALSE
        ELSE IF b.weight > 0 /\ worse(l, 3) THEN FALSE
        ELSE TRUE

\* the operations of the context: the results of +, -, * and /, rounded, and the
\* Decimal computations of maintain_center_of_gravity
context_operation(op, v) ==
    CASE op = "add" ->
            DRound([r |-> FAdd(v[1].r, v[2].r), e |-> FAdd(v[1].e, v[2].e)])
      [] op = "subtract" ->
            DRound([r |-> FSub(v[1].r, v[2].r), e |-> FSub(v[1].e, v[2].e)])
      [] op = "multiply" ->
            DRound([r |-> FMul(v[1].r, v[2].r),
                    e |-> FAdd(FMul(v[1].e, v[2].r), FMul(v[2].e, v[1].r))])
      [] op = "divide" ->
            LET inv == IF v[2].r[1] > 0 THEN <<v[2].r[2], v[2].r[1]>>
                       ELSE <<- v[2].r[2], - v[2].r[1]>>
            IN  DRound([r |-> FMul(v[1].r, inv), e |-> FMul(v[1].e, inv)])
      [] op = "maintain_center_of_gravity" ->
            maintain_center_of_gravity(v[1], v[2], v[3])
      [] op = "future_cog" ->
            <<future_cog(v[1], v[2], v[3], 1), future_cog(v[1], v[2], v[3], 3)>>

context(op, args) == Value({context_operation(op, v) : v \in {args}})

\* Constraint.__call__
holds(c, h, b, i) ==
    CASE c = "weight_within_limit" -> weight_within_limit(h, b, i)
      [] c = "fits_inside_bin" -> fits_inside_bin(h, b, i)
      [] c = "no_overlap" -> no_overlap(h, b, i)
      [] c = "is_supported" -> is_supported(h, b, i)
      [] c = "maintain_center_of_gravity" ->
            context("maintain_center_of_gravity", <<h, b, i>>)

raises(c, h, b, i) == c = "maintain_center_of_gravity" /\ cog_raises(h, b, i)


\* a call of a constraint in which is_supported lowers the item to the floor
constraint_call_drop(c, h, b, i) ==
    [result |-> IF raises(c, h, b, i) THEN "raise"
                ELSE IF holds(c, h, b, i) THEN "true" ELSE "false",
     heap   |-> IF c = "is_supported" THEN [h EXCEPT ![i].position[2] = 0] ELSE h,
     bin    |-> b]

\* Constraint.__call__ with its effects: the five functions assign to locals only, so
\* the heap and the bin it leaves are those it was given
constraint_call(c, h, b, i) ==
    [result |-> IF raises(c, h, b, i) THEN "raise"
                ELSE IF holds(c, h, b, i) THEN "true" ELSE "false",
     heap   |-> h,
     bin    |-> b]

---------------------------------------------------------------------------
(* Bin.put_item, Bin.remove_item *)

\* all([c(self, item) for c in constraints]): the list is built whole, so every
\* constraint is called; the result is "raise" when a call raises
put_item_result(cs, h, b, i) ==
    IF \E k \in 1..Len(cs) : raises(cs[k], h, b, i) THEN "raise"
    ELSE IF \A k \in 1..Len(cs) : holds(cs[k], h, b, i) THEN "true"
    ELSE "false"

\* the constraints called by all([c(self, item) for c in constraints]) in Bin.put_item,
\* in call order: the whole list, or the list up to the first call that raises
put_item_evaluated(cs, h, b, i) ==
    LET bad == {k \in 1..Len(cs) : raises(cs[k], h, b, i)}
    IN  IF bad = {} THEN cs ELSE SubSeq(cs, 1, CHOOSE k \in bad : \A j \in bad : k <= j)

\* self.items.append(item); self.weight += item.weight
commit(b, h, i) == [b EXCEPT !.items = Append(@, i), !.weight = @ + h[i].weight]

\* Bin.put_item: the bin it leaves
put_item(cs, h, b, i) == IF put_item_result(cs, h, b, i) = "true" THEN commit(b, h, i) ELSE b

\* list.remove: the list without the first occurrence of i
remove_first(s, i) ==
    LET k == CHOOSE k \in 1..Len(s) : s[k] = i /\ \A j \in 1..(k - 1) : s[j] # i
    IN  SubSeq(s, 1, k - 1) \o SubSeq(s, k + 1, Len(s))

\* a removal that subtracts the weight before it looks for the item
remove_item_weight_first(h, b, i) ==
    IF i \in Range(b.items)
    THEN [b EXCEPT !.items = remove_first(@, i), !.weight = @ - h[i].weight]
    ELSE [b EXCEPT !.weight = @ - h[i].weight]

\* Bin.remove_item: the bin it leaves (unchanged when list.remove raises ValueError)
remove_item(h, b, i) ==
    IF i \in Range(b.items)
    THEN [b EXCEPT !.items = remove_first(@, i), !.weight = @ - h[i].weight]
    ELSE b

---------------------------------------------------------------------------
(* base_packer.try_fit *)

\* y_candidates of the item at (x, 0, z): the floor and the tops of the items its
\* footprint overlaps, highest first
surface_heights(h, b, i) ==
    {0} \cup {h[b.items[k]].position[2] + h[b.items[k]].size[2] :
                k \in {j \in 1..Len(b.items) :
                        FLt(Frac(0, 1),
                            rect_intersect(item_volume(h[b.items[j]]), item_volume(h[i]), 1, 3))}}

\* a failed trial that leaves the item as the last iteration left it
restore_nothing(h, i, old) == h

\* item.position = old_pos; item._volume.size = old_size
restore(h, i, old) == [h EXCEPT ![i].position = old.position, ![i].size = old.size]

\* The loops over (pivot, axis, oriz_deg_free, vert_deg_free) run as one counter k;
\* the item's size and position are carried from one iteration to the next as the
\* code leaves them.
RECURSIVE try_fit_from(_, _, _, _, _, _)
try_fit_from(cs, h, b, i, k, old) ==
    IF k >= 12 * Len(b.items)
    THEN [result |-> "false", heap |-> restore(h, i, old), bin |-> b]
    ELSE
      LET ib      == h[b.items[(k \div 12) + 1]]
          axis    == ((k \div 4) % 3) + 1
          vert    == k % 2
          new_pos == [ib.position EXCEPT ![axis] = @ + ib.size[axis]]
          h0      == [h EXCEPT ![i].position = <<new_pos[1], 0, new_pos[3]>>]
          y_candidates == IF axis = 2 THEN <<new_pos[2]>>
                          ELSE SortedDesc(surface_heights(h0, b, i))
          at(n)   == [h EXCEPT ![i].position = <<new_pos[1], y_candidates[n], new_pos[3]>>]
          res(n)  == put_item_result(cs, at(n), b, i)
          hit     == {n \in 1..Len(y_candidates) : res(n) # "false"}
          first   == CHOOSE n \in hit : \A m \in hit : n <= m
          v       == rotate90(h[i].size, FALSE, TRUE)
          next_size == IF vert = 1 THEN rotate90(v, TRUE, FALSE) ELSE v
      IN  IF hit # {}
          THEN [result |-> res(first), heap |-> at(first), bin |-> put_item(cs, at(first), b, i)]
          ELSE try_fit_from(cs, [at(Len(y_candidates)) EXCEPT ![i].size = next_size],
                            b, i, k + 1, old)

\* a try_fit whose pivot is the position object of the first item of the bin, not a
\* copy of it: the step along x moves that item
try_fit_shared_pivot(cs, h, b, i) ==
    LET r == try_fit_from(cs, h, b, i, 0, h[i])
    IN  [r EXCEPT !.heap[b.items[1]].position[1] = @ + h[b.items[1]].size[1]]

try_fit(cs, h, b, i) == try_fit_from(cs, h, b, i, 0, h[i])


---------------------------------------------------------------------------
(* multi_anchor_packer *)

\* height_weight = 0.3 and compact_weight = 0.2, the defaults of Packer.pack: the
\* floats nearest to 3/10 and 2/10
height_weight == float_div(3, 10)
compact_weight == float_div(2, 10)

\* the concatenation of the sequences ss[lo], .., ss[hi]
RECURSIVE Concat(_, _, _)
Concat(ss, lo, hi) ==
    IF lo > hi THEN <<>>
    ELSE IF lo = hi THEN ss[lo]
    ELSE Concat(ss, lo, (lo + hi) \div 2) \o Concat(ss, ((lo + hi) \div 2) + 1, hi)

\* _generate_xz_anchors: the set object it returns for item i at its current size.  The
\* keys are added in the order of the code: the corners, the centre, the positions
\* adjacent to each item of the bin, then the mirrors of every key of
\* snapshot = list(anchors); the set comprehension adds the keys that pass the filter
\* to a new set, in the order the iteration of anchors yields them.
xz_anchors(h, b, i) ==
    LET iw  == h[i].size[1]
        idp == h[i].size[3]
        W   == b.model.size[1]
        D   == b.model.size[3]
        rx  == W - iw
        bz  == D - idp
        \* (bin.width - iw) / 2: W and iw count half units and are even, so this is exact
        cx  == (W - iw) \div 2
        cz  == (D - idp) \div 2
        corners == <<<<0, 0>>>>
                   \o (IF rx >= 0 THEN <<<<rx, 0>>>> ELSE <<>>)
                   \o (IF bz >= 0 THEN <<<<0, bz>>>> ELSE <<>>)
                   \o (IF rx >= 0 /\ bz >= 0 THEN <<<<rx, bz>>>> ELSE <<>>)
        centre  == IF cx >= 0 /\ cz >= 0 THEN <<<<cx, cz>>>> ELSE <<>>
        adjacent(ib) ==
            LET px == ib.position[1]
                pz == ib.position[3]
            IN  <<<<px + ib.size[1], pz>>, <<px, pz + ib.size[3]>>,
                  <<px + ib.size[1], pz + ib.size[3]>>>>
                \o (IF px - iw >= 0 THEN <<<<px - iw, pz>>>> ELSE <<>>)
                \o (IF pz - idp >= 0 THEN <<<<px, pz - idp>>>> ELSE <<>>)
        sources == corners \o centre
                   \o Concat(List([k \in 1..Len(b.items) |-> adjacent(h[b.items[k]])]),
                             1, Len(b.items))
        mirrors(a) ==
            LET mx == W - iw - a[1]
                mz == D - idp - a[2]
            IN  (IF mx >= 0 THEN <<<<mx, a[2]>>>> ELSE <<>>)
                \o (IF mz >= 0 THEN <<<<a[1], mz>>>> ELSE <<>>)
                \o (IF mx >= 0 /\ mz >= 0 THEN <<<<mx, mz>>>> ELSE <<>>)
        \* for key in keys: anchors.add(key)
        added(anchors, keys) == set_add_all(anchors, keys, 1, Len(keys))
        mirrored(snapshot) ==
            Concat(List([k \in 1..Len(snapshot) |-> mirrors(snapshot[k])]), 1, Len(snapshot))
        with_mirrors(anchors) == added(anchors, mirrored(set_iter(anchors)))
        inside(a) == a[1] >= 0 /\ a[2] >= 0 /\ a[1] + iw <= W /\ a[2] + idp <= D
        filtered(anchors) == added(set_new, SelectSeq(set_iter(anchors), inside))
    IN  filtered(with_mirrors(added(set_new, sources)))

\* _generate_xz_anchors: the (x, z) anchors in the set it returns
generate_xz_anchors(h, b, i) == Range(set_iter(xz_anchors(h, b, i)))

\* _find_y_candidates: the set it sorts (the item stands at (x, 0, z))
find_y_candidates(h, b, i, x, z) ==
    LET h0 == [h EXCEPT ![i].position = <<x, 0, z>>]
    IN  {0} \cup {h[b.items[k]].position[2] + h[b.items[k]].size[2] :
                    k \in {j \in 1..Len(b.items) :
                        /\ h[b.items[j]].position[2] + h[b.items[j]].size[2] + h[i].size[2]
                             <= b.model.size[2]
                        /\ FLt(Frac(0, 1), rect_intersect(item_volume(h0[b.items[j]]),
                                                         item_volume(h0[i]), 1, 3))}}

\* float(pos.y / bin.height) * height_weight, for a position at height y in a bin of
\* height H (half units, y <= H).  The Decimal quotient is rounded to 28 digits before
\* float() rounds it to 53 bits.  The two roundings give the float nearest to y / H:
\* for H < 2^17 either y / H has at most 17 binary places, and then it is a Decimal
\* of at most 28 digits and float() is exact, or y / H lies further than 2^-88 from
\* every number of 54 bits, and the Decimal, within 10^-27 of it, rounds as it does.
height_score(y, H) == float_mul(float_div(y, H), height_weight)

\* (min_dist / norm) * compact_weight, min_dist = m and norm = n counted in half units:
\* float(abs(..)) of a multiple of 1/2 and the sums of such floats are exact, and so is
\* float(bin.width + bin.height + bin.depth); the quotient of the two floats is the
\* float nearest to m / n
compact_score(m, n) == float_mul(float_div(m, n), compact_weight)

\* height_score and compact_score of the bins up to CachedHeight high and up to
\* CachedNorm in width + height + depth (half units), computed once
CachedHeight == 20
CachedNorm == 82
height_scores == List([H \in 1..CachedHeight |-> List([y \in 1..H |-> height_score(y, H)])])
compact_scores == List([n \in 1..CachedNorm |-> List([m \in 1..n |-> compact_score(m, n)])])

\* _score_placement: a float
score_placement(h, b, pos) ==
    LET H == b.model.size[2]
        height == IF pos[2] = 0 THEN zero
                  ELSE IF H <= CachedHeight /\ pos[2] <= H THEN height_scores[H][pos[2]]
                  ELSE height_score(pos[2], H)
        norm == b.model.size[1] + b.model.size[2] + b.model.size[3]
        dist(k) == Abs(pos[1] - h[b.items[k]].position[1])
                   + Abs(pos[2] - h[b.items[k]].position[2])
                   + Abs(pos[3] - h[b.items[k]].position[3])
        min_dist == CHOOSE d \in {dist(k) : k \in 1..Len(b.items)} :
                        \A k \in 1..Len(b.items) : d <= dist(k)
        compact == IF Len(b.items) = 0 \/ min_dist = 0 THEN zero
                   ELSE IF norm <= CachedNorm /\ min_dist <= norm
                   THEN compact_scores[norm][min_dist]
                   ELSE compact_score(min_dist, norm)
    IN  float_add(height, compact)

\* all(c(bin, item) for c in constraints): stops at the first constraint that fails or raises
all_constraints_result(cs, h, b, i) ==
    LET bad == {k \in 1..Len(cs) : raises(cs[k], h, b, i) \/ ~ holds(cs[k], h, b, i)}
        first == CHOOSE k \in bad : \A j \in bad : k <= j
    IN  IF bad = {} THEN "true"
        ELSE IF raises(cs[first], h, b, i) THEN "raise"
        ELSE "false"

\* the constraints called by all(c(bin, item) for c in constraints) in
\* _try_fit_multi_anchor, in call order: the list up to the first call that fails or raises
all_constraints_evaluated(cs, h, b, i) ==
    LET bad == {k \in 1..Len(cs) : raises(cs[k], h, b, i) \/ ~ holds(cs[k], h, b, i)}
    IN  IF bad = {} THEN cs ELSE SubSeq(cs, 1, CHOOSE k \in bad : \A j \in bad : k <= j)

\* The loops of _try_fit_multi_anchor carry the locals of the function: the heap (the
\* item's position and size as the last statement left them), best_score, best_pos and
\* best_size (<<>> for None), and whether a constraint has raised, which ends the
\* loops.  They are written with the two choices a claim about them speaks of:
\*   order  the order in which `for (ax, az) in xz_anchors` yields the keys of the set
\*          object: "slots", the order of the table, is the interpreter's;
\*   keep   the comparison that replaces the best candidate: "less", score < best_score,
\*          is the code's.
as_written == [order |-> "slots", keep |-> "less"]

\* the loops with another iteration order of the set, and with another comparison
slots_reversed == [order |-> "reversed", keep |-> "less"]
less_or_equal == [order |-> "slots", keep |-> "less_equal"]

\* the keys of a set object in the order its iteration yields them
iteration(s, order) ==
    IF order = "slots" THEN set_iter(s)
    ELSE Value({List([k \in 1..Len(keys) |-> keys[Len(keys) + 1 - k]]) : keys \in {set_iter(s)}})

\* if score < best_score: best_score = score; best_pos = ..; best_size = ..
keep_best(st, i, score, loop) ==
    IF (IF loop.keep = "less" THEN float_less(score, st.best_score)
        ELSE ~ float_less(st.best_score, score))
    THEN [st EXCEPT !.best_score = score, !.best_pos = st.heap[i].position,
                    !.best_size = st.heap[i].size]
    ELSE st

\* if all(c(bin, item) for c in constraints): score = _score_placement(..); ..
\* with res the result of all(..)
trial_checked(res, st, b, i, loop) ==
    IF res = "raise" THEN [st EXCEPT !.raised = TRUE]
    ELSE IF res = "true"
    THEN keep_best(st, i, score_placement(st.heap, b, st.heap[i].position), loop)
    ELSE st

\* the item stands at the position of the trial
trial_at(cs, st, b, i, loop) ==
    trial_checked(all_constraints_result(cs, st.heap, b, i), st, b, i, loop)

\* item.position = Vector3(ax, y, az), and the body of the loop over y at pos
trial(cs, st, b, i, pos, loop) ==
    IF st.raised THEN st
    ELSE trial_at(cs, [st EXCEPT !.heap[i].position = pos], b, i, loop)

\* for y in _find_y_candidates(bin, item, ax, az), from the n-th candidate on
RECURSIVE y_loop(_, _, _, _, _, _, _, _)
y_loop(cs, st, b, i, a, ys, n, loop) ==
    IF n > Len(ys) THEN st
    ELSE y_loop(cs, trial(cs, st, b, i, <<a[1], ys[n], a[2]>>, loop), b, i, a, ys, n + 1, loop)

\* the body of `for (ax, az) in xz_anchors` for the anchor a: _find_y_candidates leaves
\* the item at (ax, 0, az) and returns the candidates highest first
anchor_trials(cs, st, b, i, a, loop) ==
    IF st.raised THEN st
    ELSE y_loop(cs, [st EXCEPT !.heap[i].position = <<a[1], 0, a[2]>>], b, i, a,
                SortedDesc(find_y_candidates(st.heap, b, i, a[1], a[2])), 1, loop)

\* for (ax, az) in xz_anchors, over the anchors lo..hi of the iteration
RECURSIVE anchor_loop(_, _, _, _, _, _, _, _)
anchor_loop(cs, st, b, i, anchors, lo, hi, loop) ==
    IF lo > hi THEN st
    ELSE IF lo = hi THEN anchor_trials(cs, st, b, i, anchors[lo], loop)
    ELSE Value({anchor_loop(cs, t, b, i, anchors, ((lo + hi) \div 2) + 1, hi, loop) :
                    t \in {anchor_loop(cs, st, b, i, anchors, lo, (lo + hi) \div 2, loop)}})

\* for (ax, az) in xz_anchors
anchors_loop(cs, st, b, i, anchors, loop) ==
    anchor_loop(cs, st, b, i, anchors, 1, Len(anchors), loop)

\* for _oriz in range(2): for _vert in range(2), from iteration o = 2 * _oriz + _vert
\* on: the anchors of the item at its current size, the trials, item.rotate90(vertical
\* = True) and, after the second _vert, item.rotate90(orizontal = True)
RECURSIVE rotation_loop(_, _, _, _, _, _)
rotation_loop(cs, st, b, i, o, loop) ==
    IF o = 4 \/ st.raised THEN st
    ELSE LET v == rotate90(st.heap[i].size, FALSE, TRUE)
             rotated == IF o % 2 = 1 THEN rotate90(v, TRUE, FALSE) ELSE v
         IN  Value({IF t.raised THEN t
                    ELSE rotation_loop(cs, [t EXCEPT !.heap[i].size = rotated], b, i, o + 1, loop) :
                        t \in {anchors_loop(cs, st, b, i,
                                            iteration(xz_anchors(st.heap, b, i), loop.order), loop)}})

\* the statements after the loops: the commit of the best candidate, or the
\* restoration of old_pos and old_size; a raise leaves the item as the trial put it
after_loops(st, h, b, i) ==
    LET hb == [st.heap EXCEPT ![i].position = st.best_pos, ![i].size = st.best_size]
    IN  IF st.raised THEN [result |-> "raise", heap |-> st.heap, bin |-> b]
        ELSE IF st.best_pos # <<>>
        THEN [result |-> "true", heap |-> hb, bin |-> commit(b, hb, i)]
        ELSE [result |-> "false", heap |-> restore(st.heap, i, h[i]), bin |-> b]

\* _try_fit_multi_anchor with the given loops: [result, heap, bin], the result "true",
\* "false" or "raise", and the heap and the bin it leaves
multi_anchor_trial(cs, h, b, i, loop) ==
    after_loops(rotation_loop(cs, [heap |-> h, best_score |-> inf, best_pos |-> <<>>,
                                   best_size |-> <<>>, raised |-> FALSE], b, i, 0, loop),
                h, b, i)

\* a trial loop that keeps a candidate when score <= best_score: among the placements
\* of minimal score the one seen last is committed
try_fit_multi_anchor_last(cs, h, b, i) == multi_anchor_trial(cs, h, b, i, less_or_equal)

\* a trial loop over the anchors in the reverse of the order of the table
try_fit_multi_anchor_reversed(cs, h, b, i) == multi_anchor_trial(cs, h, b, i, slots_reversed)

\* _try_fit_multi_anchor
try_fit_multi_anchor(cs, h, b, i) == multi_anchor_trial(cs, h, b, i, as_written)

\* the size the item has in iteration o = 2 * _oriz + _vert of the rotation loops
RECURSIVE size_in_rotation(_, _)
size_in_rotation(size, o) ==
    IF o = 0 THEN size
    ELSE LET v == rotate90(size_in_rotation(size, o - 1), FALSE, TRUE)
         IN  IF o % 2 = 0 THEN rotate90(v, TRUE, FALSE) ELSE v

\* The triples _try_fit_multi_anchor evaluates when no constraint raises, in the order
\* of the loops: [o, pos] for every rotation o, every anchor in the order of the
\* iteration of the set, every y highest first
evaluated_triples(h, b, i) ==
    LET of_rotation(o) ==
            LET ho == [h EXCEPT ![i].size = size_in_rotation(h[i].size, o)]
                at(a, ys) == List([n \in 1..Len(ys) |-> [o |-> o, pos |-> <<a[1], ys[n], a[2]>>]])
                of_anchor(a) == at(a, SortedDesc(find_y_candidates(ho, b, i, a[1], a[2])))
                of_anchors(anchors) ==
                    Concat(List([k \in 1..Len(anchors) |-> of_anchor(anchors[k])]), 1, Len(anchors))
            IN  of_anchors(set_iter(xz_anchors(ho, b, i)))
    IN  of_rotation(0) \o of_rotation(1) \o of_rotation(2) \o of_rotation(3)

\* the trials of _try_fit_multi_anchor, as a set
trials(h, b, i) == Range(evaluated_triples(h, b, i))

trial_heap(h, i, t) ==
    [h EXCEPT ![i].size = size_in_rotation(h[i].size, t.o), ![i].position = t.pos]

---------------------------------------------------------------------------
(* Packer._pack_to_bin *)

\* the loops over (axis, ib) run as one counter k; the item keeps the last pivot
RECURSIVE pack_to_bin_from(_, _, _, _, _)
pack_to_bin_from(cs, h, b, i, k) ==
    IF k >= 3 * Len(b.items)
    THEN [result |-> "false", heap |-> h, bin |-> b]
    ELSE LET axis  == (k \div Len(b.items)) + 1
             ib    == h[b.items[(k % Len(b.items)) + 1]]
             pivot == [ib.position EXCEPT ![axis] = @ + ib.size[axis]]
             hp    == [h EXCEPT ![i].position = pivot]
             res   == put_item_result(cs, hp, b, i)
         IN  IF res # "false"
             THEN [result |-> res, heap |-> hp, bin |-> put_item(cs, hp, b, i)]
             ELSE pack_to_bin_from(cs, hp, b, i, k + 1)

pack_to_bin(cs, h, b, i) ==
    IF Len(b.items) = 0
    THEN [result |-> put_item_result(cs, h, b, i), heap |-> h, bin |-> put_item(cs, h, b, i)]
    ELSE pack_to_bin_from(cs, h, b, i, 0)

---------------------------------------------------------------------------
(* Inputs *)

\* the item models a batch is drawn from: a post, a plank, a weightless cube
ItemModels == {Item(<<2, 6, 2>>, 4), Item(<<6, 2, 2>>, 2), Item(<<2, 2, 2>>, 0)}

Big == BinModel("big", <<6, 8, 4>>, 10)
Small == BinModel("small", <<4, 6, 2>>, 6)
BinModels == {Big, Small}

SeqsUpTo(S, n) == UNION {[1..m -> S] : m \in 0..n}

Batches == SeqsUpTo(ItemModels, MaxItems)
\* the fleets handed to the Packer, in the order the caller wrote them
Fleets == {<<>>, <<Small, Big>>, <<Big, Big>>}
DefaultBins == {NoModel, Small}

\* the constraint lists handed to pack, in the order the caller wrote them
ConstraintLists ==
    { <<"no_overlap", "fits_inside_bin">>,
      <<"weight_within_limit", "fits_inside_bin", "no_overlap">>,
      <<"is_supported", "no_overlap", "fits_inside_bin", "weight_within_limit">>,
      <<"weight_within_limit", "fits_inside_bin", "no_overlap", "is_supported",
        "maintain_center_of_gravity">> }

NoCall == [op |-> "none", item |-> 0, result |-> "none", pre |-> Item(<<0, 0, 0>>, 0),
           pre_bin |-> NoBin, cog |-> <<DInt(0), DInt(0)>>]

\* the record of a placement call of item i on bin b in heap h with outcome r
Call(op, cs, h, b, i, r) ==
    [op |-> op, item |-> i, result |-> r.result, pre |-> h[i], pre_bin |-> b,
     cog |-> IF r.result = "true" /\ "maintain_center_of_gravity" \in Range(cs)
             THEN context("future_cog", <<r.heap, b, i>>)
             ELSE <<DInt(0), DInt(0)>>]

---------------------------------------------------------------------------
(* Packer.pack and the driver loops of base_packer and multi_anchor_packer *)

Init ==
    /\ pc = "pack"
    /\ strategy \in {"greedy", "multi_anchor"}
    /\ constraints \in ConstraintLists
    /\ available_bins \in Fleets
    /\ default_bin \in DefaultBins
    /\ \E batch \in Batches : /\ heap = batch
                              /\ items = [k \in 1..Len(batch) |-> k]
    /\ items_to_pack = <<>>
    /\ unfitted_items = <<>>
    /\ current_configuration = <<>>
    /\ bin = NoBin
    /\ idx = 0
    /\ last = NoCall

\* list.sort(key, reverse=True) of the list s whose k-th element has the key keys[k]:
\* stable, so equal keys keep their order
RECURSIVE sort_descending(_, _)
sort_descending(s, keys) ==
    IF s = <<>> THEN <<>>
    ELSE LET n == Len(s)
             rest == sort_descending(SubSeq(s, 1, n - 1), SubSeq(keys, 1, n - 1))
             before == Cardinality({j \in 1..(n - 1) : keys[j] >= keys[n]})
         IN  SubSeq(rest, 1, before) \o <<s[n]>> \o SubSeq(rest, before + 1, n - 1)

\* Packer.pack up to the call of the packer, and the packer's first lines.
\* format_numbers rounds every length and weight to number_of_decimals places: the
\* lengths of the model are multiples of 1/2 and the weights are integers, and the
\* rounding leaves their values, and so their hashes and every comparison, as they are.
Pack ==
    /\ pc = "pack"
    /\ LET sorted_items == sort_descending(items,
                               [k \in 1..Len(items) |-> volume(heap[items[k]].size)])
       IN  /\ items' = sorted_items
           /\ items_to_pack' = sorted_items
    /\ available_bins' = sort_descending(available_bins,
                               [k \in 1..Len(available_bins) |-> model_volume(available_bins[k])])
    /\ constraints' = sort_constraints(constraints)
    /\ current_configuration' = <<>>
    /\ unfitted_items' = <<>>
    /\ pc' = "while"
    /\ last' = NoCall
    /\ UNCHANGED <<strategy, default_bin, heap, bin, idx>>

\* an allocation that takes the last bin model of the fleet instead of the first
AllocateFromFleet_last ==
    /\ pc = "while"
    /\ Len(items_to_pack) # 0
    /\ Len(available_bins) # 0
    /\ bin' = Bin(Len(current_configuration), available_bins[Len(available_bins)])
    /\ available_bins' = SubSeq(available_bins, 1, Len(available_bins) - 1)
    /\ idx' = 1
    /\ pc' = "for"
    /\ last' = NoCall
    /\ UNCHANGED <<strategy, constraints, default_bin, items, heap, items_to_pack,
                   unfitted_items, current_configuration>>

\* while len(items_to_pack) != 0: ... bin = Bin(len(current_configuration), available_bins.pop(0))
AllocateFromFleet ==
    /\ pc = "while"
    /\ Len(items_to_pack) # 0
    /\ Len(available_bins) # 0
    /\ bin' = Bin(Len(current_configuration), Head(available_bins))
    /\ available_bins' = Tail(available_bins)
    /\ idx' = 1
    /\ pc' = "for"
    /\ last' = NoCall
    /\ UNCHANGED <<strategy, constraints, default_bin, items, heap, items_to_pack,
                   unfitted_items, current_configuration>>

\* ... elif default_bin != None: bin = Bin(len(current_configuration), default_bin)
AllocateDefault ==
    /\ pc = "while"
    /\ Len(items_to_pack) # 0
    /\ Len(available_bins) = 0
    /\ default_bin # NoModel
    /\ bin' = Bin(Len(current_configuration), default_bin)
    /\ idx' = 1
    /\ pc' = "for"
    /\ last' = NoCall
    /\ UNCHANGED <<strategy, constraints, available_bins, default_bin, items, heap,
                   items_to_pack, unfitted_items, current_configuration>>

\* ... else: break
FleetExhausted ==
    /\ pc = "while"
    /\ Len(items_to_pack) # 0
    /\ Len(available_bins) = 0
    /\ default_bin = NoModel
    /\ pc' = "done"
    /\ last' = NoCall
    /\ UNCHANGED <<strategy, constraints, available_bins, default_bin, items, heap,
                   items_to_pack, unfitted_items, current_configuration, bin, idx>>

\* the while condition is false: return current_configuration
ItemsExhausted ==
    /\ pc = "while"
    /\ Len(items_to_pack) = 0
    /\ pc' = "done"
    /\ last' = NoCall
    /\ UNCHANGED <<strategy, constraints, available_bins, default_bin, items, heap,
                   items_to_pack, unfitted_items, current_configuration, bin, idx>>

\* one iteration of "for item in items_to_pack" with outcome r of the placement call
Placed(op, i, r) ==
    /\ heap' = r.heap
    /\ bin' = r.bin
    /\ last' = Call(op, constraints, heap, bin, i, r)
    /\ IF r.result = "raise"
       THEN /\ pc' = "raised"
            /\ UNCHANGED <<unfitted_items, idx>>
       ELSE /\ pc' = pc
            /\ idx' = idx + 1
            /\ unfitted_items' = IF r.result = "false" THEN Append(unfitted_items, i)
                                 ELSE unfitted_items
    /\ UNCHANGED <<strategy, constraints, available_bins, default_bin, items,
                   items_to_pack, current_configuration>>

\* base_packer: if not bin.items: bin.put_item(item, constraints)
GreedyFirstItem ==
    /\ pc = "for"
    /\ strategy = "greedy"
    /\ idx <= Len(items_to_pack)
    /\ Len(bin.items) = 0
    /\ LET i == items_to_pack[idx]
       IN  Placed("put_item", i, [result |-> put_item_result(constraints, heap, bin, i),
                                  heap |-> heap,
                                  bin |-> put_item(constraints, heap, bin, i)])

\* base_packer: else: try_fit(bin, item)
GreedyTryFit ==
    /\ pc = "for"
    /\ strategy = "greedy"
    /\ idx <= Len(items_to_pack)
    /\ Len(bin.items) # 0
    /\ LET i == items_to_pack[idx]
       IN  Placed("try_fit", i, try_fit(constraints, heap, bin, i))

\* multi_anchor_packer: _try_fit_multi_anchor(bin, item)
MultiAnchorTryFit ==
    /\ pc = "for"
    /\ strategy = "multi_anchor"
    /\ idx <= Len(items_to_pack)
    /\ LET i == items_to_pack[idx]
       IN  Placed("_try_fit_multi_anchor", i, try_fit_multi_anchor(constraints, heap, bin, i))

\* an empty fresh bin that does not stop the loop: the same items are offered to the
\* next bin
NoProgress_retry ==
    /\ pc = "for"
    /\ idx > Len(items_to_pack)
    /\ Len(bin.items) = 0
    /\ pc' = "while"
    /\ unfitted_items' = <<>>
    /\ last' = NoCall
    /\ UNCHANGED <<strategy, constraints, available_bins, default_bin, items, heap,
                   items_to_pack, current_configuration, bin, idx>>

\* a no-progress break that records the empty bin before it stops
NoProgress_append ==
    /\ pc = "for"
    /\ idx > Len(items_to_pack)
    /\ Len(bin.items) = 0
    /\ pc' = "done"
    /\ current_configuration' = Append(current_configuration, bin)
    /\ last' = NoCall
    /\ UNCHANGED <<strategy, constraints, available_bins, default_bin, items, heap,
                   items_to_pack, unfitted_items, bin, idx>>

\* after the for loop: if len(bin.items) == 0: break
NoProgress ==
    /\ pc = "for"
    /\ idx > Len(items_to_pack)
    /\ Len(bin.items) = 0
    /\ pc' = "done"
    /\ last' = NoCall
    /\ UNCHANGED <<strategy, constraints, available_bins, default_bin, items, heap,
                   items_to_pack, unfitted_items, current_configuration, bin, idx>>

\* an end of the for loop that keeps the whole pending list for the next bin
NextBin_keep_pending ==
    /\ pc = "for"
    /\ idx > Len(items_to_pack)
    /\ Len(bin.items) # 0
    /\ items_to_pack' = items_to_pack
    /\ unfitted_items' = <<>>
    /\ current_configuration' = Append(current_configuration, bin)
    /\ pc' = "while"
    /\ last' = NoCall
    /\ UNCHANGED <<strategy, constraints, available_bins, default_bin, items, heap,
                   bin, idx>>

\* an end of the for loop that records the bin and goes on filling it with the items
\* it refused
NextBin_reopen ==
    /\ pc = "for"
    /\ idx > Len(items_to_pack)
    /\ Len(bin.items) # 0
    /\ unfitted_items # <<>>
    /\ Len(current_configuration) < MaxItems
    /\ items_to_pack' = unfitted_items
    /\ unfitted_items' = <<>>
    /\ current_configuration' = Append(current_configuration, bin)
    /\ pc' = "for"
    /\ idx' = 1
    /\ last' = NoCall
    /\ UNCHANGED <<strategy, constraints, available_bins, default_bin, items, heap, bin>>

\* after the for loop: items_to_pack = unfitted_items; current_configuration.append(bin)
NextBin ==
    /\ pc = "for"
    /\ idx > Len(items_to_pack)
    /\ Len(bin.items) # 0
    /\ items_to_pack' = unfitted_items
    /\ unfitted_items' = <<>>
    /\ current_configuration' = Append(current_configuration, bin)
    /\ pc' = "while"
    /\ last' = NoCall
    /\ UNCHANGED <<strategy, constraints, available_bins, default_bin, items, heap,
                   bin, idx>>

\* Packer.clear_current_configuration, called once pack has returned: the list pack
\* assigned to self.current_configuration is emptied.  The bins and the items are
\* left as they are.
ClearCurrentConfiguration ==
    /\ pc = "done"
    /\ current_configuration' = <<>>
    /\ pc' = "cleared"
    /\ last' = NoCall
    /\ UNCHANGED <<strategy, constraints, available_bins, default_bin, items, heap,
                   items_to_pack, unfitted_items, bin, idx>>

Next ==
    \/ Pack
    \/ AllocateFromFleet
    \/ AllocateDefault
    \/ FleetExhausted
    \/ ItemsExhausted
    \/ GreedyFirstItem
    \/ GreedyTryFit
    \/ MultiAnchorTryFit
    \/ NoProgress
    \/ NextBin
    \/ ClearCurrentConfiguration

Spec == Init /\ [][Next]_vars


---------------------------------------------------------------------------
(* A bin used through its own operations: Bin.put_item, Bin.remove_item,         *)
(* Packer._pack_to_bin and the commit of _try_fit_multi_anchor, called in any    *)
(* order on one bin and a batch of items.                                        *)

\* the batch the bin is used with: a plank, a post and a weightless cube
BinBatch == <<Item(<<6, 2, 2>>, 2), Item(<<2, 6, 2>>, 4), Item(<<2, 2, 2>>, 0)>>

\* the constraint lists the bin is used with
BinConstraintLists ==
    { <<"weight_within_limit", "fits_inside_bin", "no_overlap">>,
      <<"weight_within_limit", "fits_inside_bin", "no_overlap", "is_supported",
        "maintain_center_of_gravity">> }

InitBin ==
    /\ pc = "bin"
    /\ strategy = "none"
    /\ constraints \in BinConstraintLists
    /\ available_bins = <<>>
    /\ default_bin = NoModel
    /\ heap = BinBatch
    /\ items = [k \in 1..Len(BinBatch) |-> k]
    /\ items_to_pack = <<>>
    /\ unfitted_items = <<>>
    /\ current_configuration = <<>>
    /\ bin = Bin(0, Big)
    /\ idx = 0
    /\ last = NoCall

\* the step of a call on the bin with outcome r; idx counts the calls made
Called(op, i, r) ==
    /\ idx < MaxCalls
    /\ idx' = idx + 1
    /\ heap' = r.heap
    /\ bin' = r.bin
    /\ last' = Call(op, constraints, heap, bin, i, r)
    /\ UNCHANGED <<pc, strategy, constraints, available_bins, default_bin, items,
                   items_to_pack, unfitted_items, current_configuration>>

\* bin.put_item(item, constraints), the item where it stands, of an item of the bin
\* or not
BinPutItem(i) ==
    /\ pc = "bin"
    /\ Called("put_item", i, [result |-> put_item_result(constraints, heap, bin, i),
                              heap |-> heap,
                              bin |-> put_item(constraints, heap, bin, i)])

\* self._pack_to_bin(bin, item, constraints), of an item of the bin or not: an item
\* of the bin is moved from pivot to pivot like any other
BinPackToBin(i) ==
    /\ pc = "bin"
    /\ Called("_pack_to_bin", i, pack_to_bin(constraints, heap, bin, i))

\* _try_fit_multi_anchor(bin, item), with the list sorted as multi_anchor_packer sorts
\* it.  The function is local to multi_anchor_packer, whose loop calls it on pending
\* items only: an item the bin holds is never passed to it.
BinTryFitMultiAnchor(i) ==
    /\ pc = "bin"
    /\ i \notin Range(bin.items)
    /\ Called("_try_fit_multi_anchor", i,
              try_fit_multi_anchor(sort_constraints(constraints), heap, bin, i))

\* bin.remove_item(item), of an item of the bin or not
BinRemoveItem(i) ==
    /\ pc = "bin"
    /\ Called("remove_item", i,
              [result |-> IF i \in Range(bin.items) THEN "true" ELSE "false",
               heap |-> heap,
               bin |-> remove_item(heap, bin, i)])

NextBinCall ==
    \E i \in DOMAIN heap :
        \/ BinPutItem(i)
        \/ BinPackToBin(i)
        \/ BinTryFitMultiAnchor(i)
        \/ BinRemoveItem(i)

SpecBin == InitBin /\ [][NextBinCall]_vars

---------------------------------------------------------------------------
(* Packer.pack_test_on_models: every item of the Packer is offered to a new bin   *)
(* of each model in turn.  available_bins holds the models still to be tested and *)
(* current_configuration the local list `configuration`, which is returned:       *)
(* Packer.current_configuration is not assigned.                                  *)

\* the lists of models the test is run on
ModelLists == SeqsUpTo(BinModels, 2)

InitModels ==
    /\ pc = "models"
    /\ strategy = "none"
    /\ constraints \in BinConstraintLists
    /\ available_bins \in ModelLists
    /\ default_bin = NoModel
    /\ \E batch \in Batches : /\ heap = batch
                              /\ items = [k \in 1..Len(batch) |-> k]
    /\ items_to_pack = <<>>
    /\ unfitted_items = <<>>
    /\ current_configuration = <<>>
    /\ bin = NoBin
    /\ idx = 0
    /\ last = NoCall

\* for model in models: bin = Bin(0, model)
TestNextModel ==
    /\ pc = "models"
    /\ available_bins # <<>>
    /\ bin' = Bin(0, Head(available_bins))
    /\ available_bins' = Tail(available_bins)
    /\ idx' = 1
    /\ pc' = "test"
    /\ last' = NoCall
    /\ UNCHANGED <<strategy, constraints, default_bin, items, heap, items_to_pack,
                   unfitted_items, current_configuration>>

\* for item in self.items: self._pack_to_bin(bin, item, constraints); the result is
\* not looked at, an exception leaves the function
TestPackToBin ==
    /\ pc = "test"
    /\ idx <= Len(items)
    /\ LET i == items[idx]
           r == pack_to_bin(constraints, heap, bin, i)
       IN  /\ heap' = r.heap
           /\ bin' = r.bin
           /\ last' = Call("_pack_to_bin", constraints, heap, bin, i, r)
           /\ IF r.result = "raise"
              THEN pc' = "raised" /\ idx' = idx
              ELSE pc' = pc /\ idx' = idx + 1
    /\ UNCHANGED <<strategy, constraints, available_bins, default_bin, items,
                   items_to_pack, unfitted_items, current_configuration>>

\* configuration.append(bin), whether the bin received an item or not
TestAppend ==
    /\ pc = "test"
    /\ idx > Len(items)
    /\ current_configuration' = Append(current_configuration, bin)
    /\ pc' = "models"
    /\ last' = NoCall
    /\ UNCHANGED <<strategy, constraints, available_bins, default_bin, items, heap,
                   items_to_pack, unfitted_items, bin, idx>>

\* return configuration
TestReturn ==
    /\ pc = "models"
    /\ available_bins = <<>>
    /\ pc' = "tested"
    /\ last' = NoCall
    /\ UNCHANGED <<strategy, constraints, available_bins, default_bin, items, heap,
                   items_to_pack, unfitted_items, current_configuration, bin, idx>>

NextModels ==
    \/ TestNextModel
    \/ TestPackToBin
    \/ TestAppend
    \/ TestReturn

SpecModels == InitModels /\ [][NextModels]_vars

---------------------------------------------------------------------------
(* The bins of a pack and what they hold *)

\* the bins of the configuration and the bin being filled
AllBins == Range(current_configuration) \cup (IF bin = NoBin THEN {} ELSE {bin})

placed_weight(h, b) == SumSeq([k \in 1..Len(b.items) |-> h[b.items[k]].weight])

occurrences(s, i) == Cardinality({k \in 1..Len(s) : s[k] = i})

Active(c) == c \in Range(constraints)

\* C1: in every bin of the configuration and in the bin being filled, at every
\* moment of a pack, no two distinct placed items intersect.
C1_NonOverlap ==
    \A b \in AllBins : \A j, k \in 1..Len(b.items) :
        j # k => ~ intersect(item_volume(heap[b.items[j]]), item_volume(heap[b.items[k]]))

C1_Witness ==
    /\ pc = "done"
    /\ \E b \in Range(current_configuration) : Len(b.items) >= 3

\* C2: every placed item lies inside its bin on the three axes.
C2_Containment ==
    \A b \in AllBins : \A k \in 1..Len(b.items) : \A a \in 1..3 :
        /\ 0 <= heap[b.items[k]].position[a]
        /\ heap[b.items[k]].position[a] + heap[b.items[k]].size[a] <= b.model.size[a]

C2_Witness ==
    /\ pc = "done"
    /\ \E b \in Range(current_configuration) : \E k \in 1..Len(b.items) :
          /\ heap[b.items[k]].position[1] > 0
          /\ heap[b.items[k]].position[2] > 0

\* C3 as claimed: whatever the constraint list, the weights of the items placed in a
\* bin add up to at most the bin's max_weight.
C3_WeightCeiling_AnyList ==
    \A b \in AllBins : placed_weight(heap, b) <= b.model.max_weight

\* C3 as amended: when weight_within_limit is in the constraint list, the weights of
\* the items placed in a bin add up to at most the bin's max_weight.
C3_WeightCeiling ==
    Active("weight_within_limit") =>
        \A b \in AllBins : placed_weight(heap, b) <= b.model.max_weight

C3_Witness ==
    /\ Active("weight_within_limit")
    /\ last.result = "false"
    /\ Len(bin.items) > 0
    /\ bin.weight + heap[last.item].weight > bin.model.max_weight

\* C4: when the driver loop stops, every input item is once in exactly one bin of the
\* configuration or once in the pending list, never both and never neither.
C4_Conservation ==
    pc = "done" =>
        \A i \in DOMAIN heap :
            occurrences(items_to_pack, i)
            + SumSeq([k \in 1..Len(current_configuration) |->
                        occurrences(current_configuration[k].items, i)]) = 1

C4_Witness ==
    /\ pc = "done"
    /\ Len(current_configuration) >= 2
    /\ Len(items_to_pack) >= 1


\* C7: when try_fit or _try_fit_multi_anchor returns false, the item has the position and
\* the size it had before the call, and the bin's item list and weight are unchanged.
C7_Transactional ==
    (last.op \in {"try_fit", "_try_fit_multi_anchor"} /\ last.result = "false") =>
        /\ heap[last.item].position = last.pre.position
        /\ heap[last.item].size = last.pre.size
        /\ bin.items = last.pre_bin.items
        /\ bin.weight = last.pre_bin.weight

C7_Witness ==
    /\ last.op \in {"try_fit", "_try_fit_multi_anchor"}
    /\ last.result = "false"
    /\ Len(bin.items) > 0
    /\ heap[last.item].size[1] # heap[last.item].size[3]

\* the area the X-Z projections of two boxes share
true_overlap_xz(v1, v2) ==
    LET shared(a) == Max(0, Min(v1.position[a] + v1.size[a], v2.position[a] + v2.size[a])
                            - Max(v1.position[a], v2.position[a]))
    IN  shared(1) * shared(3)

\* the area on which item b.items[k] rests on items of b whose top is at its bottom
true_contact_area(h, b, k) ==
    SumSeq([j \in 1..Len(b.items) |->
        IF j # k /\ h[b.items[j]].position[2] + h[b.items[j]].size[2] = h[b.items[k]].position[2]
        THEN true_overlap_xz(item_volume(h[b.items[j]]), item_volume(h[b.items[k]]))
        ELSE 0])

\* C8: with is_supported and the base constraints in the list, every placed item is on
\* the floor or rests on at least minimum_support of its base area.
C8_Support ==
    (Active("is_supported") /\ Active("weight_within_limit")
     /\ Active("fits_inside_bin") /\ Active("no_overlap")) =>
        \A b \in AllBins : \A k \in 1..Len(b.items) :
            \/ heap[b.items[k]].position[2] = 0
            \/ MinSupportDen * true_contact_area(heap, b, k)
                 >= MinSupportNum * heap[b.items[k]].size[1] * heap[b.items[k]].size[3]

\* A bin and items on which the tolerance is not a Decimal: at the load 6 of 9 the
\* tolerance on X is 25 * 0.2 * (1 - 0.7 * 6/9) = 8/3
ToleranceBin == BinModel("wide", <<25, 6, 10>>, 9)
\* (the long item is one the greedy strategy accepts where it stands, at the origin)
ToleranceItems == {Item(<<2, 2, 8>>, 1), Item(<<2, 2, 8>>, 2), Item(<<2, 2, 8>>, 3),
                   Item(<<23, 2, 8>>, 2)}

\* packs of up to MaxItems of these items into bins of that model, given as the
\* fleet or as the default model, under the centre-of-gravity constraint
InitTolerance ==
    /\ pc = "pack"
    /\ strategy \in {"greedy", "multi_anchor"}
    /\ constraints \in {<<"weight_within_limit", "fits_inside_bin", "no_overlap",
                          "maintain_center_of_gravity">>,
                        <<"weight_within_limit", "fits_inside_bin", "no_overlap",
                          "is_supported", "maintain_center_of_gravity">>}
    /\ available_bins \in {<<>>, <<ToleranceBin>>}
    /\ default_bin \in {NoModel, ToleranceBin}
    /\ \E batch \in SeqsUpTo(ToleranceItems, MaxItems) :
           /\ heap = batch
           /\ items = [k \in 1..Len(batch) |-> k]
    /\ items_to_pack = <<>>
    /\ unfitted_items = <<>>
    /\ current_configuration = <<>>
    /\ bin = NoBin
    /\ idx = 0
    /\ last = NoCall

SpecTolerance == InitTolerance /\ [][Next]_vars

\* the deviation of the centre of gravity of bin b from its target on axis a
deviation(h, b, a) == DAbs(DSub(calculate_center_of_gravity(h, b)[a], bin_center(b, a)))

\* the deviation of the centre of gravity of bin b from its target on axis a is within
\* the effective tolerance at the load of b
cog_within_tolerance(h, b, a) == DLe(deviation(h, b, a), effective_tol(b, b.weight, a))

\* C9: with maintain_center_of_gravity in the list, after every commit the centre of
\* gravity of the bin is within the tolerance computed from its load after the commit,
\* on X and on Z.
C9_CogBound ==
    Active("maintain_center_of_gravity") =>
        \A b \in AllBins : Len(b.items) > 0 =>
            cog_within_tolerance(heap, b, 1) /\ cog_within_tolerance(heap, b, 3)

\* what holds: the numbers the two Decimals stand for, the deviation and the
\* tolerance before any rounding, satisfy the bound
CogBoundBeforeRounding ==
    Active("maintain_center_of_gravity") =>
        \A b \in AllBins : Len(b.items) > 0 =>
            \A a \in {1, 3} : FLe(deviation(heap, b, a).r, effective_tol(b, b.weight, a).r)

\* a bin of the configuration whose centre of gravity is beyond the tolerance in the
\* last digit: the same number before rounding, a larger Decimal
BeyondToleranceByRounding ==
    /\ Active("maintain_center_of_gravity")
    /\ \E b \in AllBins :
           /\ Len(b.items) > 0
           /\ deviation(heap, b, 1).r = effective_tol(b, b.weight, 1).r
           /\ DLt(effective_tol(b, b.weight, 1), deviation(heap, b, 1))

C9_Witness ==
    /\ Active("maintain_center_of_gravity")
    /\ last.result = "true"
    /\ Len(bin.items) >= 2
    /\ heap[last.item].weight > 0


\* the constraints of the list all return true for item i on bin b
all_return_true(cs, h, b, i) ==
    \A k \in 1..Len(cs) : ~ raises(cs[k], h, b, i) /\ holds(cs[k], h, b, i)

\* C5: put_item returns true, appends the item and adds its weight if and only if every
\* constraint of the list returns true; otherwise it returns false and leaves the bin's
\* item list and weight unchanged.
C5_PutItem ==
    last.op = "put_item" =>
        IF all_return_true(constraints, heap, last.pre_bin, last.item)
        THEN /\ last.result = "true"
             /\ bin.items = Append(last.pre_bin.items, last.item)
             /\ bin.weight = last.pre_bin.weight + heap[last.item].weight
        ELSE /\ last.result = "false"
             /\ bin.items = last.pre_bin.items
             /\ bin.weight = last.pre_bin.weight

\* the same on the calls of put_item in which no constraint raises
PutItem_NoRaise ==
    (last.op = "put_item" /\ last.result # "raise") =>
        IF all_return_true(constraints, heap, last.pre_bin, last.item)
        THEN /\ last.result = "true"
             /\ bin.items = Append(last.pre_bin.items, last.item)
             /\ bin.weight = last.pre_bin.weight + heap[last.item].weight
        ELSE /\ last.result = "false"
             /\ bin.items = last.pre_bin.items
             /\ bin.weight = last.pre_bin.weight

\* C6: after any sequence of put_item, remove_item and multi-anchor commits, the weight
\* of the bin is the sum of the weights of the items in its list.
C6_WeightAccounting == bin.weight = placed_weight(heap, bin)

C6_Witness ==
    /\ last.op = "remove_item"
    /\ last.result = "false"
    /\ Len(bin.items) >= 1
    /\ heap[last.item].weight > 0

\* A bin and a batch whose centres of gravity are not Decimals: weights 1, 2 and 3
\* make thirds and sixths, which the code rounds
RoundingBin == BinModel("thirds", <<4, 6, 2>>, 20)
RoundingBatch == <<Item(<<4, 2, 2>>, 1), Item(<<2, 2, 2>>, 2), Item(<<4, 2, 2>>, 3)>>

InitRounding ==
    /\ pc = "bin"
    /\ strategy = "none"
    /\ constraints \in {<<"weight_within_limit", "fits_inside_bin", "no_overlap",
                          "maintain_center_of_gravity">>,
                        <<"weight_within_limit", "fits_inside_bin", "no_overlap",
                          "is_supported", "maintain_center_of_gravity">>}
    /\ available_bins = <<>>
    /\ default_bin = NoModel
    /\ heap = RoundingBatch
    /\ items = [k \in 1..Len(RoundingBatch) |-> k]
    /\ items_to_pack = <<>>
    /\ unfitted_items = <<>>
    /\ current_configuration = <<>>
    /\ bin = Bin(0, RoundingBin)
    /\ idx = 0
    /\ last = NoCall

SpecRounding == InitRounding /\ [][NextBinCall]_vars

\* the last call committed an item under maintain_center_of_gravity
AcceptedUnderCog ==
    /\ Active("maintain_center_of_gravity")
    /\ last.result = "true"
    /\ last.op \in {"put_item", "try_fit", "_pack_to_bin", "_try_fit_multi_anchor"}

\* two Decimals that are roundings of the same exact number and whose difference is
\* at most 10^-26 of that number (the offsets count units of 10^-28)
same_up_to_rounding(x, y) ==
    /\ x.r = y.r
    /\ FLe(FAbs(FSub(x.e, y.e)), FMul(Frac(100, 1), FAbs(x.r)))

\* C10: for every item accepted into a bin, the prospective centre of gravity
\* computed inside maintain_center_of_gravity equals, on X and on Z, the one
\* calculate_center_of_gravity computes once the item is committed.
C10_IncrementalCog ==
    AcceptedUnderCog =>
        /\ last.cog[1] = calculate_center_of_gravity(heap, bin)[1]
        /\ last.cog[2] = calculate_center_of_gravity(heap, bin)[3]

\* How far the two computations agree: the prospective centre of gravity and the one
\* calculate_center_of_gravity computes once the item is committed are, on X and on Z,
\* roundings of the same exact number, and differ by at most 10^-26 of it.
C10_IncrementalCogRounded ==
    AcceptedUnderCog =>
        /\ same_up_to_rounding(last.cog[1], calculate_center_of_gravity(heap, bin)[1])
        /\ same_up_to_rounding(last.cog[2], calculate_center_of_gravity(heap, bin)[3])

\* an item of positive weight was accepted into a loaded bin, moved its centre of
\* gravity, and the prospective and the recomputed value differ in their last digit
C10_Witness ==
    /\ AcceptedUnderCog
    /\ last.pre_bin.weight > 0
    /\ heap[last.item].weight > 0
    /\ last.cog[1].r # calculate_center_of_gravity(heap, last.pre_bin)[1].r
    /\ last.cog[1] # calculate_center_of_gravity(heap, bin)[1]

---------------------------------------------------------------------------
(* Determinism *)

\* the driver is about to call _try_fit_multi_anchor on the next pending item
MultiAnchorCallPending ==
    pc = "for" /\ strategy = "multi_anchor" /\ idx <= Len(items_to_pack)

\* the outcome of that call, and the outcome it has when the iteration of the anchor
\* set yields the same anchors in the reverse order
PendingOutcome == try_fit_multi_anchor(constraints, heap, bin, items_to_pack[idx])
PendingOutcomeReversed ==
    try_fit_multi_anchor_reversed(constraints, heap, bin, items_to_pack[idx])

\* C11: identical inputs give identical bin contents and positions, and the result of
\* _try_fit_multi_anchor does not depend on the order in which the anchor set is
\* iterated: the call returns the same result and leaves the same items, at the same
\* positions and sizes, in the same bin, when the anchors are iterated in the reverse
\* order.
C11_Determinism ==
    MultiAnchorCallPending => PendingOutcomeReversed = PendingOutcome

\* How far the two orders agree: the call has the same result, leaves the same item
\* list and weight in the bin, and commits a placement of the same score.
C11_SameScore ==
    MultiAnchorCallPending =>
        LET i == items_to_pack[idx]
        IN  /\ PendingOutcomeReversed.result = PendingOutcome.result
            /\ PendingOutcomeReversed.bin = PendingOutcome.bin
            /\ PendingOutcome.result = "true" =>
                 score_placement(PendingOutcomeReversed.heap, bin,
                                 PendingOutcomeReversed.heap[i].position)
                 = score_placement(PendingOutcome.heap, bin, PendingOutcome.heap[i].position)

---------------------------------------------------------------------------
(* The rotation loops of try_fit and _try_fit_multi_anchor on their own:        *)
(*     for _oriz in range(2):                                                   *)
(*         for _vert in range(2):                                               *)
(*             <evaluate the item in its current orientation>                   *)
(*             item.rotate90(vertical=True)                                     *)
(*         item.rotate90(orizontal=True)                                        *)
(* idx counts the iterations made, 2 * _oriz + _vert being the next one;        *)
(* last.evaluated lists the orientations evaluated so far.                      *)

\* the sizes an item enters the loops with
RotationSizes == [1..3 -> {2, 4, 6}]

\* a loop body that rotates horizontally in every iteration
next_orientation_both(size, vert) == rotate90(rotate90(size, FALSE, TRUE), TRUE, FALSE)

\* the rotations at the end of iteration (_oriz, vert): item.rotate90(vertical=True),
\* and item.rotate90(orizontal=True) as well when the inner loop ends (vert = 1)
next_orientation(size, vert) ==
    LET v == rotate90(size, FALSE, TRUE)
    IN  IF vert = 1 THEN rotate90(v, TRUE, FALSE) ELSE v

InitRotation ==
    /\ pc = "rotate"
    /\ strategy = "none"
    /\ constraints = <<>>
    /\ available_bins = <<>>
    /\ default_bin = NoModel
    /\ \E size \in RotationSizes : heap = <<Item(size, 0)>>
    /\ items = <<1>>
    /\ items_to_pack = <<>>
    /\ unfitted_items = <<>>
    /\ current_configuration = <<>>
    /\ bin = NoBin
    /\ idx = 0
    /\ last = [op |-> "rotation_loops", item |-> 1, result |-> "none", pre |-> heap[1],
               pre_bin |-> NoBin, cog |-> <<DInt(0), DInt(0)>>, evaluated |-> <<>>]

\* one iteration of the inner loop
RotationIteration ==
    /\ pc = "rotate"
    /\ idx < 4
    /\ last' = [last EXCEPT !.evaluated = Append(@, heap[1].size)]
    /\ heap' = [heap EXCEPT ![1].size = next_orientation(@, idx % 2)]
    /\ idx' = idx + 1
    /\ UNCHANGED <<pc, strategy, constraints, available_bins, default_bin, items,
                   items_to_pack, unfitted_items, current_configuration, bin>>

SpecRotation == InitRotation /\ [][RotationIteration]_vars

\* the (X-width, Z-depth) pair of a size
footprint(size) == <<size[1], size[3]>>

\* C12: the two-by-two rotation loop evaluates exactly four orientations, pairwise
\* distinct in their (X-width, Z-depth) pair when the three dimensions of the item are
\* distinct, and leaves the item in its starting orientation when it completes.
C12_Rotation ==
    (pc = "rotate" /\ idx = 4) =>
        /\ Len(last.evaluated) = 4
        /\ heap[1].size = last.pre.size
        /\ Cardinality(Range(last.pre.size)) = 3 =>
             \A j, k \in 1..4 :
                 j # k => footprint(last.evaluated[j]) # footprint(last.evaluated[k])

C12_Witness ==
    /\ pc = "rotate"
    /\ idx = 4
    /\ last.pre.size = Item(<<2, 4, 6>>, 0).size
    /\ Len(last.evaluated) = 4

---------------------------------------------------------------------------
(* Termination *)

\* the driver loop has stopped: it returned (and the configuration may have been
\* cleared since), or an exception left it
Stopped == pc \in {"done", "raised", "cleared"}

\* A step of the thread that runs pack: while the loop has not stopped, the thread
\* moves to another place of the code.  Every step of Next changes pc or idx, and a
\* step that changes them is, by [Next]_vars, a step of Next.
ThreadStep ==
    /\ ~ Stopped
    /\ \E p \in {"pack", "while", "for", "done", "raised"}, k \in 0..(MaxItems + 1) :
           /\ <<p, k>> # <<pc, idx>>
           /\ pc' = p
           /\ idx' = k

\* The packer is one sequential thread and every call it makes returns: the thread
\* does not halt before the loop has stopped.
SpecLive == Spec /\ WF_<<pc, idx>>(ThreadStep)

\* an iteration of the while loop ends and the loop goes on
LoopGoesOn == pc = "for" /\ pc' = "while"

\* C13: the driver loop of both strategies eventually stops, and every iteration that
\* does not stop it places at least one item: the pending list gets shorter by the
\* number of items of the bin, which is not zero.
C13_Termination ==
    /\ <>Stopped
    /\ [][LoopGoesOn => /\ Len(bin.items) >= 1
                        /\ Len(items_to_pack') = Len(items_to_pack) - Len(bin.items)]_vars

\* the loop stopped after the default model had been allocated three times
C13_Witness ==
    /\ pc = "done"
    /\ available_bins = <<>>
    /\ Len(current_configuration) = 3
    /\ \A k \in 1..3 : current_configuration[k].model = default_bin

---------------------------------------------------------------------------
(* Exceptions *)

\* C14: a placement attempt through put_item, try_fit or _try_fit_multi_anchor ends
\* with a boolean result and never with a raised error, also for an item of weight 0
\* offered to an empty bin while maintain_center_of_gravity is active.
C14_NoExceptions ==
    /\ pc # "raised"
    /\ last.op \in {"put_item", "try_fit", "_try_fit_multi_anchor"} =>
           last.result \in {"true", "false"}

---------------------------------------------------------------------------
(* Packer.calculate_statistics and the worked example E1 *)

\* Packer.calculate_statistics on the configuration conf; average_volume is the
\* Decimal quotient loaded_volume / configuration_volume
calculate_statistics(h, conf) ==
    LET loaded_volume == SumSeq([k \in 1..Len(conf) |->
                             SumSeq([j \in 1..Len(conf[k].items) |->
                                         volume(h[conf[k].items[j]].size)])])
        loaded_weight == SumSeq([k \in 1..Len(conf) |-> conf[k].weight])
        configuration_volume == SumSeq([k \in 1..Len(conf) |-> model_volume(conf[k].model)])
    IN  [loaded_volume |-> loaded_volume,
         loaded_weight |-> loaded_weight,
         average_volume |-> IF configuration_volume > 0
                            THEN DDiv(DInt(loaded_volume), DInt(configuration_volume))
                            ELSE DInt(0)]

\* The bin and the item of E1: a bin 10x10x10 of maximal weight 100, an item 5x5x5 of
\* weight 10
E1Bin == BinModel("e1", <<10, 10, 10>>, 100)
E1Item == Item(<<5, 5, 5>>, 10)

\* an item that fits the bin of E1 in no orientation
Oversize == Item(<<15, 5, 5>>, 10)

\* the constraint lists of the examples
ExampleConstraintLists ==
    { <<"no_overlap", "fits_inside_bin">>,
      <<"weight_within_limit", "fits_inside_bin", "no_overlap">>,
      <<"is_supported", "no_overlap", "fits_inside_bin", "weight_within_limit">> }

\* packs of up to MaxItems items into the bin of E1, given as the fleet or as the
\* default model; E1 itself is the pack of one item of E1 with the bin as the fleet
\* under the base constraints
InitExamples ==
    /\ pc = "pack"
    /\ strategy \in {"greedy", "multi_anchor"}
    /\ constraints \in ExampleConstraintLists
    /\ available_bins \in {<<>>, <<E1Bin>>}
    /\ default_bin \in {NoModel, E1Bin}
    /\ \E batch \in SeqsUpTo({E1Item, Oversize}, MaxItems) :
           /\ heap = batch
           /\ items = [k \in 1..Len(batch) |-> k]
    /\ items_to_pack = <<>>
    /\ unfitted_items = <<>>
    /\ current_configuration = <<>>
    /\ bin = NoBin
    /\ idx = 0
    /\ last = NoCall

SpecExamples == InitExamples /\ [][Next]_vars

\* the pack of E1 has ended: one item of E1, the bin taken from the fleet, the base
\* constraints
E1Done ==
    /\ pc = "done"
    /\ Len(heap) = 1
    /\ heap[1].size = E1Item.size
    /\ default_bin = NoModel
    /\ bin # NoBin
    /\ Range(constraints) = {"weight_within_limit", "fits_inside_bin", "no_overlap"}

\* C15: E1 yields one bin holding the item at (0,0,0), with loaded_volume = 125 and
\* average_volume = 0.125, under the greedy and under the multi_anchor strategy.
C15_E1 ==
    E1Done =>
        /\ Len(current_configuration) = 1
        /\ current_configuration[1].items = <<1>>
        /\ heap[1].position = <<0, 0, 0>>
        /\ calculate_statistics(heap, current_configuration).loaded_volume = 125
        /\ calculate_statistics(heap, current_configuration).average_volume
               = Dec(Reduced(125, 1000))

\* E1 apart from the position of the item: one bin, one item, the statistics
E1_BinAndStatistics ==
    E1Done =>
        /\ Len(current_configuration) = 1
        /\ current_configuration[1].items = <<1>>
        /\ calculate_statistics(heap, current_configuration).loaded_volume = 125
        /\ calculate_statistics(heap, current_configuration).average_volume
               = Dec(Reduced(125, 1000))

\* E1 under the greedy strategy
E1_Greedy == strategy = "greedy" => C15_E1

\* E1 under the multi_anchor strategy: the five anchors of the empty bin score 0.0, the
\* iteration of the set yields (5, 5) first, and the item is committed at (5, 0, 5)
E1_MultiAnchor ==
    (E1Done /\ strategy = "multi_anchor") => heap[1].position = HalfUnits(<<5, 0, 5>>)

---------------------------------------------------------------------------
(* The centre of gravity of a bin *)

\* twice the sum over the items of b of (position + size / 2) * weight on axis a
twice_moment(h, b, a) ==
    SumSeq([k \in 1..Len(b.items) |->
                (2 * h[b.items[k]].position[a] + h[b.items[k]].size[a])
                * h[b.items[k]].weight])

\* c is the mass-weighted mean of the centres of the items of b, as a Decimal: the
\* weights do not add up to zero and on every axis c is the quotient
\* (sum of centre * weight) / (sum of the weights) rounded to 28 significant digits.
\* (twice_moment counts half units, so the quotient in units is over 4 * weight.)
is_weighted_mean(h, b, c) ==
    /\ placed_weight(h, b) # 0
    /\ \A a \in 1..3 :
           c[a] = DRound(Dec(Reduced(twice_moment(h, b, a), 4 * placed_weight(h, b))))

is_geometric_centre(b, c) == \A a \in 1..3 : c[a] = Dec(Reduced(b.model.size[a], 4))

\* C16 as claimed: calculate_center_of_gravity returns the geometric centre of a bin
\* that holds no items and the mass-weighted mean of the items' centres for every bin
\* that holds at least one item, bins whose items all have weight 0 included.
C16_CenterOfGravity ==
    \A b \in AllBins :
        IF Len(b.items) = 0
        THEN is_geometric_centre(b, calculate_center_of_gravity(heap, b))
        ELSE is_weighted_mean(heap, b, calculate_center_of_gravity(heap, b))

\* C16 as amended: calculate_center_of_gravity returns the geometric centre of a bin
\* whose weight is 0 (no items, or items that all have weight 0) and the mass-weighted
\* mean of the items' centres for every bin of positive weight.
C16_CenterOfGravityByWeight ==
    \A b \in AllBins :
        IF placed_weight(heap, b) = 0
        THEN is_geometric_centre(b, calculate_center_of_gravity(heap, b))
        ELSE is_weighted_mean(heap, b, calculate_center_of_gravity(heap, b))

\* a bin of three items of which one has weight 0 and the others different weights,
\* whose centre of gravity is not the centre of the bin
C16_Witness ==
    \E b \in AllBins :
        /\ Len(b.items) = 3
        /\ {heap[b.items[k]].weight : k \in 1..3} = {0, 2, 4}
        /\ ~ is_geometric_centre(b, calculate_center_of_gravity(heap, b))

\* a bin that holds only an item of weight 0
C16_WeightlessLoad == \E b \in AllBins : Len(b.items) = 1 /\ placed_weight(heap, b) = 0

---------------------------------------------------------------------------
(* The order in which bins are allocated *)

\* s holds the elements of f, each as often as f does, in non-increasing volume order
is_descending_order_of(s, f) ==
    /\ Len(s) = Len(f)
    /\ \A m \in Range(f) \cup Range(s) : occurrences(s, m) = occurrences(f, m)
    /\ \A k \in 1..(Len(s) - 1) : model_volume(s[k]) >= model_volume(s[k + 1])

models_of(conf) == [k \in 1..Len(conf) |-> conf[k].model]

\* the driver takes a bin: the while loop enters its for loop
Allocation == pc = "while" /\ pc' = "for"

\* the fleet is exhausted, no default model is given and items are pending
NothingToAllocate ==
    /\ pc = "while"
    /\ Len(items_to_pack) # 0
    /\ available_bins = <<>>
    /\ default_bin = NoModel

\* every allocated bin received an item: the run has ended and its last bin, if any,
\* was not dropped empty
EveryBinUsed == pc = "done" /\ (bin = NoBin \/ Len(bin.items) >= 1)

\* C17: pack orders the fleet by descending model volume; every allocation takes the
\* front model of the fleet while the fleet is not empty and the default model only
\* when it is; with the fleet exhausted and no default model the driver stops and the
\* pending items stay unfitted; and when every allocated bin received an item the
\* configuration is the allocated bins in allocation order: the fleet in descending
\* order from its front, then bins of the default model.
C17_FleetOrder ==
    /\ [][Pack => is_descending_order_of(available_bins', available_bins)]_vars
    /\ [][Allocation =>
            IF available_bins # <<>>
            THEN /\ bin' = Bin(Len(current_configuration), Head(available_bins))
                 /\ available_bins' = Tail(available_bins)
            ELSE /\ default_bin # NoModel
                 /\ bin' = Bin(Len(current_configuration), default_bin)
                 /\ available_bins' = <<>>]_vars
    /\ [][NothingToAllocate =>
            /\ pc' = "done"
            /\ items_to_pack' = items_to_pack
            /\ current_configuration' = current_configuration
            /\ \A i \in Range(items_to_pack) :
                   \A b \in Range(current_configuration) : i \notin Range(b.items)]_vars
    /\ [](EveryBinUsed =>
            \E f \in Fleets, s \in [1..2 -> BinModels] \cup {<<>>} :
                /\ is_descending_order_of(s, f)
                /\ LET n == Len(current_configuration)
                       fromFleet == Min(n, Len(s))
                   IN  /\ \A k \in 1..n : current_configuration[k].id = k - 1
                       /\ SubSeq(models_of(current_configuration), 1, fromFleet)
                              = SubSeq(s, 1, fromFleet)
                       /\ available_bins = SubSeq(s, fromFleet + 1, Len(s))
                       /\ \A k \in (fromFleet + 1)..n :
                              current_configuration[k].model = default_bin)

\* a run on the fleet <<small, big>> that ended with the bins big, small and then a
\* bin of the default model, each holding an item
C17_Witness ==
    /\ EveryBinUsed
    /\ models_of(current_configuration) = <<Big, Small, Small>>
    /\ default_bin = Small

---------------------------------------------------------------------------
(* The functions of Space.py and fits_inside_bin on two boxes: heap[1] and heap[2]  *)
(* are the boxes, bin is the bin heap[2] is tested against, last is the last call.  *)

\* the extents of the first box on an axis (it starts at 0) and the positions and
\* extents of the second, in the code's units: apart, touching on either side,
\* overlapping, nested, equal
FirstSizes == {2, 6}
SecondPositions == {-2, 0, 2, 6}
SecondSizes == {2, 4}

InitSpace ==
    /\ pc = "space"
    /\ strategy = "none"
    /\ constraints = <<>>
    /\ available_bins = <<>>
    /\ default_bin = NoModel
    /\ \E s1 \in [1..3 -> FirstSizes], p2 \in [1..3 -> SecondPositions],
          s2 \in [1..3 -> SecondSizes] :
           heap = <<Item(s1, 0), [Item(s2, 0) EXCEPT !.position = HalfUnits(p2)]>>
    /\ items = <<1, 2>>
    /\ items_to_pack = <<>>
    /\ unfitted_items = <<>>
    /\ current_configuration = <<>>
    /\ \E m \in BinModels : bin = Bin(0, m)
    /\ idx = 0
    /\ last = [op |-> "none", axes |-> <<0, 0>>, result |-> 0, swapped |-> 0]

\* rect_intersect(item1, item2, x, y) and rect_intersect(item2, item1, x, y)
ApplyRectIntersect ==
    /\ pc = "space"
    /\ \E x, y \in 1..3 :
           /\ x # y
           /\ last' = [op |-> "rect_intersect", axes |-> <<x, y>>,
                       result |-> rect_intersect(item_volume(heap[1]), item_volume(heap[2]), x, y),
                       swapped |-> rect_intersect(item_volume(heap[2]), item_volume(heap[1]), x, y)]
    /\ UNCHANGED <<pc, strategy, constraints, available_bins, default_bin, items, heap,
                   items_to_pack, unfitted_items, current_configuration, bin, idx>>

\* intersect(item1, item2) and intersect(item2, item1)
ApplyIntersect ==
    /\ pc = "space"
    /\ last' = [op |-> "intersect", axes |-> <<0, 0>>,
                result |-> intersect(item_volume(heap[1]), item_volume(heap[2])),
                swapped |-> intersect(item_volume(heap[2]), item_volume(heap[1]))]
    /\ UNCHANGED <<pc, strategy, constraints, available_bins, default_bin, items, heap,
                   items_to_pack, unfitted_items, current_configuration, bin, idx>>

\* fits_inside_bin(bin, item2)
ApplyFitsInsideBin ==
    /\ pc = "space"
    /\ last' = [op |-> "fits_inside_bin", axes |-> <<0, 0>>,
                result |-> fits_inside_bin(heap, bin, 2),
                swapped |-> fits_inside_bin(heap, bin, 2)]
    /\ UNCHANGED <<pc, strategy, constraints, available_bins, default_bin, items, heap,
                   items_to_pack, unfitted_items, current_configuration, bin, idx>>

NextSpace ==
    \/ ApplyRectIntersect
    \/ ApplyIntersect
    \/ ApplyFitsInsideBin

SpecSpace == InitSpace /\ [][NextSpace]_vars

\* the length the two boxes share on axis a, in half units: max(0, min(hi) - max(lo))
shared_length(v1, v2, a) ==
    Max(0, Min(v1.position[a] + v1.size[a], v2.position[a] + v2.size[a])
           - Max(v1.position[a], v2.position[a]))

\* one box lies strictly inside the other on axis a
nested_on(v1, v2, a) ==
    \/ /\ v1.position[a] < v2.position[a]
       /\ v2.position[a] + v2.size[a] < v1.position[a] + v1.size[a]
    \/ /\ v2.position[a] < v1.position[a]
       /\ v1.position[a] + v1.size[a] < v2.position[a] + v2.size[a]

\* C18: rect_intersect(a, b, u, v) is the area of the intersection of the projections
\* of the boxes on the (u, v) plane, the product of the lengths they share on the two
\* axes, also when one projection lies strictly inside the other on an axis; it is
\* non-negative, symmetric, and zero when the projections are apart or touch on an axis.
C18_RectIntersect ==
    last.op = "rect_intersect" =>
        LET v1 == item_volume(heap[1])
            v2 == item_volume(heap[2])
        IN  /\ last.result = Reduced(shared_length(v1, v2, last.axes[1])
                                      * shared_length(v1, v2, last.axes[2]), 4)
            /\ FLe(Frac(0, 1), last.result)
            /\ last.result = last.swapped
            /\ (\E k \in 1..2 : shared_length(v1, v2, last.axes[k]) = 0) =>
                   last.result = Frac(0, 1)

\* what holds of rect_intersect: it is non-negative, symmetric, zero exactly when the
\* projections share no area, never less than the area they share, and equal to it
\* when no projection is nested on either axis
RectIntersect_Bounds ==
    last.op = "rect_intersect" =>
        LET v1 == item_volume(heap[1])
            v2 == item_volume(heap[2])
            area == Reduced(shared_length(v1, v2, last.axes[1])
                            * shared_length(v1, v2, last.axes[2]), 4)
        IN  /\ FLe(area, last.result)
            /\ last.result = last.swapped
            /\ (last.result = Frac(0, 1)) <=> (area = Frac(0, 1))
            /\ (\A k \in 1..2 : ~ nested_on(v1, v2, last.axes[k])) => last.result = area

\* C19: intersect(a, b) is true exactly when the boxes share a positive length on all
\* three axes, so boxes that touch on a face, an edge or a corner do not intersect,
\* and intersect(a, b) = intersect(b, a).
C19_Intersect ==
    last.op = "intersect" =>
        LET v1 == item_volume(heap[1])
            v2 == item_volume(heap[2])
        IN  /\ last.result <=> \A a \in 1..3 : shared_length(v1, v2, a) > 0
            /\ last.result = last.swapped

\* intersect was called on a box nested in the other on x, overlapping it in part on y
\* (from -2 to 2, counted in half units below) and equal to it on z, and returned true
C19_Witness ==
    /\ last.op = "intersect"
    /\ last.result = TRUE
    /\ nested_on(item_volume(heap[1]), item_volume(heap[2]), 1)
    /\ heap[2].position[2] = -4 /\ heap[2].size[2] = 8
    /\ heap[2].position[3] = 0 /\ heap[2].size[3] = heap[1].size[3]

\* intersect was called on boxes that touch on a face and returned false
C19_TouchingCase ==
    /\ last.op = "intersect"
    /\ last.result = FALSE
    /\ heap[2].position[1] = heap[1].size[1]
    /\ \A a \in 2..3 : shared_length(item_volume(heap[1]), item_volume(heap[2]), a) > 0

\* C20: fits_inside_bin(bin, item) is true if and only if 0 <= position[a] and
\* position[a] + size[a] <= bin.size[a] on every axis a; it is false for an item with
\* a negative position coordinate.
C20_FitsInsideBin ==
    last.op = "fits_inside_bin" =>
        /\ last.result <=> \A a \in 1..3 : /\ 0 <= heap[2].position[a]
                                           /\ heap[2].position[a] + heap[2].size[a]
                                                  <= bin.model.size[a]
        /\ (\E a \in 1..3 : heap[2].position[a] < 0) => last.result = FALSE

\* what holds of fits_inside_bin: it tests the upper faces only, and agrees with
\* containment for items whose position has no negative coordinate
FitsInsideBin_UpperFaces ==
    last.op = "fits_inside_bin" =>
        /\ last.result <=> \A a \in 1..3 : heap[2].position[a] + heap[2].size[a]
                                               <= bin.model.size[a]
        /\ (\A a \in 1..3 : heap[2].position[a] >= 0) =>
               (last.result <=> \A a \in 1..3 : /\ 0 <= heap[2].position[a]
                                                /\ heap[2].position[a] + heap[2].size[a]
                                                       <= bin.model.size[a])

---------------------------------------------------------------------------
(* The constraints a placement attempt evaluates *)

\* base_packer is about to call bin.put_item on the next item for an empty bin
GreedyFirstPending ==
    /\ pc = "for"
    /\ strategy = "greedy"
    /\ idx <= Len(items_to_pack)
    /\ Len(bin.items) = 0

\* the calls are made in ascending weight order
in_weight_order(ev) ==
    \A j, k \in 1..Len(ev) : j < k => constraint_weight(ev[j]) < constraint_weight(ev[k])

\* no constraint is called after one that returned false
stops_at_false(ev, h, b, i) ==
    \A k \in 1..Len(ev) : \/ k = Len(ev)
                          \/ raises(ev[k], h, b, i)
                          \/ holds(ev[k], h, b, i)

\* the constraint lists evaluated by the next placement attempt: one list for the
\* put_item of the greedy strategy, one list per trial of _try_fit_multi_anchor; each
\* entry carries the heap the list is evaluated on
PendingEvaluations ==
    IF GreedyFirstPending
    THEN {[ev |-> put_item_evaluated(constraints, heap, bin, items_to_pack[idx]),
           heap |-> heap]}
    ELSE IF MultiAnchorCallPending
    THEN {[ev |-> all_constraints_evaluated(constraints,
                      trial_heap(heap, items_to_pack[idx], t), bin, items_to_pack[idx]),
           heap |-> trial_heap(heap, items_to_pack[idx], t)] :
              t \in trials(heap, bin, items_to_pack[idx])}
    ELSE {}

\* C21: in every placement attempt of either strategy the constraints are evaluated in
\* ascending weight order, whatever the order of the list passed to pack, and once a
\* constraint returns false no constraint of higher weight is evaluated for that attempt.
C21_ShortCircuit ==
    \A e \in PendingEvaluations :
        /\ in_weight_order(e.ev)
        /\ stops_at_false(e.ev, e.heap, bin, items_to_pack[idx])

\* what holds: the evaluation order is ascending in both strategies, and the trial
\* check of _try_fit_multi_anchor stops at the first constraint that returns false
EvaluationInWeightOrder ==
    \A e \in PendingEvaluations :
        /\ in_weight_order(e.ev)
        /\ MultiAnchorCallPending => stops_at_false(e.ev, e.heap, bin, items_to_pack[idx])

\* a trial of _try_fit_multi_anchor stopped before the end of a list of four constraints
MultiAnchorStopsEarly ==
    /\ Len(constraints) = 4
    /\ MultiAnchorCallPending
    /\ \E e \in PendingEvaluations : Len(e.ev) < 4

---------------------------------------------------------------------------
(* The constraints called on their own, between the operations of a bin *)

\* constraints[name](bin, item), the item where it stands, in the bin or not
EvaluateConstraint(c, i) ==
    /\ pc = "bin"
    /\ idx < MaxCalls
    /\ idx' = idx + 1
    /\ LET r == constraint_call(c, heap, bin, i)
       IN  /\ heap' = r.heap
           /\ bin' = r.bin
           /\ last' = [NoCall EXCEPT !.op = c, !.item = i, !.result = r.result,
                                     !.pre = heap[i], !.pre_bin = bin]
    /\ UNCHANGED <<pc, strategy, constraints, available_bins, default_bin, items,
                   items_to_pack, unfitted_items, current_configuration>>

NextConstraintCall ==
    \/ NextBinCall
    \/ \E c \in ConstraintNames, i \in DOMAIN heap : EvaluateConstraint(c, i)

SpecConstraints == InitBin /\ [][NextConstraintCall]_vars

\* C22: a call of one of the five built-in constraints on (bin, item) leaves the item
\* list and the weight of the bin and the position and the size of the item as they
\* were, whatever it returns; is_supported does not change the item's Y.
C22_Purity ==
    last.op \in ConstraintNames =>
        /\ bin.items = last.pre_bin.items
        /\ bin.weight = last.pre_bin.weight
        /\ heap[last.item].position = last.pre.position
        /\ heap[last.item].size = last.pre.size

\* is_supported was called on an item above the floor of a bin that holds an item,
\* and returned false
C22_Witness ==
    /\ last.op = "is_supported"
    /\ last.result = "false"
    /\ last.pre.position[2] > 0
    /\ Len(bin.items) >= 1

---------------------------------------------------------------------------
(* A pack of items that were used before: an item object keeps the position its  *)
(* last use left on it (Volume.position is set by the packers and never reset).  *)

\* the positions an item may carry into a pack, in the code's units: none, or one
\* left by an earlier pack
CarriedPositions == {<<0, 0, 0>>, <<2, 0, 2>>}

\* a post and a weightless cube, new or used before
CarriedItems ==
    {[m EXCEPT !.position = HalfUnits(p)] : m \in {Item(<<2, 6, 2>>, 4), Item(<<2, 2, 2>>, 0)},
                                 p \in CarriedPositions}

InitCarried ==
    /\ pc = "pack"
    /\ strategy \in {"greedy", "multi_anchor"}
    /\ constraints \in {<<"no_overlap", "fits_inside_bin">>,
                        <<"weight_within_limit", "fits_inside_bin", "no_overlap">>}
    /\ available_bins \in Fleets
    /\ default_bin \in DefaultBins
    /\ \E batch \in SeqsUpTo(CarriedItems, MaxItems) :
           /\ heap = batch
           /\ items = [k \in 1..Len(batch) |-> k]
    /\ items_to_pack = <<>>
    /\ unfitted_items = <<>>
    /\ current_configuration = <<>>
    /\ bin = NoBin
    /\ idx = 0
    /\ last = NoCall

SpecCarried == InitCarried /\ [][Next]_vars

\* C23: whenever the greedy strategy places an item into a bin that holds no items,
\* the item is placed at (0,0,0), whatever position it carried before the attempt.
C23_FirstItemAtOrigin ==
    (strategy = "greedy" /\ last.op = "put_item" /\ last.result = "true") =>
        heap[last.item].position = <<0, 0, 0>>

\* what holds: the first item of a bin is placed where it stood before the attempt
FirstItemWhereItStood ==
    (strategy = "greedy" /\ last.op = "put_item" /\ last.result = "true") =>
        /\ heap[last.item].position = last.pre.position
        /\ bin.items = <<last.item>>

---------------------------------------------------------------------------
(* The placement _try_fit_multi_anchor selects *)

\* the pending item stands as trial t puts it and every constraint holds of it
feasible_trial(t) ==
    LET i  == items_to_pack[idx]
        ht == trial_heap(heap, i, t)
    IN  \A k \in 1..Len(constraints) : /\ ~ raises(constraints[k], ht, bin, i)
                                       /\ holds(constraints[k], ht, bin, i)

trial_score(t) == score_placement(trial_heap(heap, items_to_pack[idx], t), bin, t.pos)

\* C24: when _try_fit_multi_anchor commits an item, the committed (orientation, anchor,
\* y) is an evaluated triple that satisfies every constraint against the bin as it is,
\* its score is <= the score of every feasible evaluated triple, it is the first
\* feasible triple of that score in the order (horizontal toggle, vertical toggle,
\* anchor iteration, y descending), and the item is appended with its weight; it
\* returns false only if no evaluated triple was feasible.
C24_Selection ==
    MultiAnchorCallPending =>
        LET i == items_to_pack[idx]
            T == evaluated_triples(heap, bin, i)
            feasible == {n \in 1..Len(T) : feasible_trial(T[n])}
        IN  /\ PendingOutcome.result = "true" =>
                 /\ \E n \in feasible :
                       /\ PendingOutcome.heap = trial_heap(heap, i, T[n])
                       /\ \A m \in feasible :
                              /\ ~ float_less(trial_score(T[m]), trial_score(T[n]))
                              /\ trial_score(T[m]) = trial_score(T[n]) => n <= m
                 /\ PendingOutcome.bin.items = Append(bin.items, i)
                 /\ PendingOutcome.bin.weight = bin.weight + heap[i].weight
            /\ PendingOutcome.result = "false" => feasible = {}

\* a call that commits on a bin that holds items, with feasible triples of different
\* scores, and two feasible triples of the minimal score at different anchors of the
\* same rotation, of which the iteration of the set yields first the one whose anchor
\* is not the lower one
C24_Witness ==
    /\ MultiAnchorCallPending
    /\ Len(bin.items) >= 1
    /\ PendingOutcome.result = "true"
    /\ LET T == evaluated_triples(heap, bin, items_to_pack[idx])
           feasible == {n \in 1..Len(T) : feasible_trial(T[n])}
           best == {n \in feasible :
                       \A m \in feasible : ~ float_less(trial_score(T[m]), trial_score(T[n]))}
       IN  /\ feasible # best
           /\ \E n, m \in best :
                 /\ n < m
                 /\ T[n].o = T[m].o
                 /\ \A k \in best : n <= k
                 /\ \/ T[m].pos[1] < T[n].pos[1]
                    \/ T[m].pos[1] = T[n].pos[1] /\ T[m].pos[3] < T[n].pos[3]

---------------------------------------------------------------------------
(* Bins are filled one after the other *)

is_prefix(s, t) == Len(s) <= Len(t) /\ SubSeq(t, 1, Len(s)) = s

\* C25: during a pack the bins recorded in the configuration never change again, in
\* item list or in weight, and the configuration only grows; the item list of the bin
\* being filled only grows; a bin is entered empty, from the while loop, with the
\* first pending item; and while it is filled the pending list is walked once, one
\* item per attempt, each item of the list being attempted on that bin at most once.
C25_NotReopened ==
    /\ [][(pc = "while" \/ pc = "for") =>
            is_prefix(current_configuration, current_configuration')]_vars
    /\ [][(pc = "for" /\ pc' = "for") =>
            /\ bin'.id = bin.id
            /\ bin'.model = bin.model
            /\ is_prefix(bin.items, bin'.items)
            /\ items_to_pack' = items_to_pack
            /\ idx' = idx + 1]_vars
    /\ [][(pc # "for" /\ pc' = "for") =>
            /\ pc = "while"
            /\ bin'.items = <<>>
            /\ bin'.weight = 0
            /\ bin'.id = Len(current_configuration)
            /\ idx' = 1]_vars
    /\ [](pc = "for" =>
            /\ \A j, k \in 1..Len(items_to_pack) : j # k => items_to_pack[j] # items_to_pack[k]
            /\ \A b \in Range(current_configuration) : b.id < bin.id)

\* a third bin is being filled while the configuration holds the first two
C25_Witness ==
    /\ pc = "for"
    /\ Len(current_configuration) = 2
    /\ Len(bin.items) >= 1
    /\ idx > Len(items_to_pack)

---------------------------------------------------------------------------
(* The corrective bias of maintain_center_of_gravity *)

\* A bin and a batch on which the corrective bias decides: a slab that covers most
\* of the floor, centred on both targets, and two light cubes
BiasBin == BinModel("bias", <<6, 8, 10>>, 20)
BiasBatch == <<Item(<<6, 2, 8>>, 8), Item(<<2, 2, 2>>, 2), Item(<<2, 2, 2>>, 2)>>

InitBias ==
    /\ pc = "bin"
    /\ strategy = "none"
    /\ constraints \in {<<"weight_within_limit", "fits_inside_bin", "no_overlap",
                          "maintain_center_of_gravity">>,
                        <<"weight_within_limit", "fits_inside_bin", "no_overlap",
                          "is_supported", "maintain_center_of_gravity">>}
    /\ available_bins = <<>>
    /\ default_bin = NoModel
    /\ heap = BiasBatch
    /\ items = [k \in 1..Len(BiasBatch) |-> k]
    /\ items_to_pack = <<>>
    /\ unfitted_items = <<>>
    /\ current_configuration = <<>>
    /\ bin = Bin(0, BiasBin)
    /\ idx = 0
    /\ last = NoCall

SpecBias == InitBias /\ [][NextBinCall]_vars

\* the deviation of the centre of gravity of bin b from its target on axis a
cog_deviation(h, b, a) == DAbs(DSub(calculate_center_of_gravity(h, b)[a], bin_center(b, a)))

\* the last call committed an item into a bin that held items of positive weight
CommitOnLoadedBin ==
    /\ last.op \in {"put_item", "try_fit", "_pack_to_bin", "_try_fit_multi_anchor"}
    /\ last.result = "true"
    /\ Len(last.pre_bin.items) >= 1
    /\ last.pre_bin.weight > 0

\* before the last commit the deviation on axis a was above half the effective
\* tolerance at the load ratio after the commit
OffCentreBefore(a) ==
    DLt(DDiv(effective_tol(bin, bin.weight, a), DInt(2)), cog_deviation(heap, last.pre_bin, a))

\* C26: with maintain_center_of_gravity active, for every commit into a non-empty bin
\* of positive weight and for each of the axes X and Z, if the deviation of the centre
\* of gravity from the target before the commit exceeds half the effective tolerance
\* at the load after the commit, the deviation after the commit is <= the one before.
C26_CorrectiveBias ==
    (Active("maintain_center_of_gravity") /\ CommitOnLoadedBin) =>
        \A a \in {1, 3} :
            OffCentreBefore(a) =>
                DLe(cog_deviation(heap, bin, a), cog_deviation(heap, last.pre_bin, a))

\* a commit of an item of positive weight into a bin whose centre of gravity was
\* off-centre on an axis, which brought it closer to the target on that axis
C26_Witness ==
    /\ Active("maintain_center_of_gravity")
    /\ CommitOnLoadedBin
    /\ heap[last.item].weight > 0
    /\ \E a \in {1, 3} :
           /\ OffCentreBefore(a)
           /\ DLt(cog_deviation(heap, bin, a), cog_deviation(heap, last.pre_bin, a))

---------------------------------------------------------------------------
(* Packer._pack_to_bin on failure *)

\* C27: a failed Packer._pack_to_bin leaves the position of the item equal to the one
\* it had before the attempt.
C27_PackToBinRestores ==
    (last.op = "_pack_to_bin" /\ last.result = "false") =>
        heap[last.item].position = last.pre.position

\* what holds: a failed _pack_to_bin of an item the bin does not hold leaves the bin
\* and the size of the item as they were, and the item where it stood (empty bin) or
\* at the last pivot it tried
PackToBinLeavesLastPivot ==
    (last.op = "_pack_to_bin" /\ last.result = "false"
     /\ last.item \notin Range(last.pre_bin.items)) =>
        /\ bin = last.pre_bin
        /\ heap[last.item].size = last.pre.size
        /\ IF Len(bin.items) = 0
           THEN heap[last.item].position = last.pre.position
           ELSE LET ib == heap[bin.items[Len(bin.items)]]
                IN  heap[last.item].position = [ib.position EXCEPT ![3] = @ + ib.size[3]]

\* what pack_test_on_models does with it: an item recorded in the bin of an earlier
\* model stands, at some later step, somewhere else than where that bin holds it
EarlierBinItemMoved ==
    \E k \in 1..Len(current_configuration) :
        \E i \in Range(current_configuration[k].items) :
            /\ last.op = "_pack_to_bin"
            /\ last.item = i
            /\ heap[i].position # last.pre.position

---------------------------------------------------------------------------
(* The bins of the returned configuration *)

\* the sum of the volumes of the bins of conf that hold an item
non_empty_volume(conf) ==
    SumSeq([k \in 1..Len(conf) |->
                IF Len(conf[k].items) >= 1 THEN model_volume(conf[k].model) ELSE 0])

\* C28: every bin of the configuration holds at least one item and the ids of the bins
\* are 0, 1, ..., n-1 in list order; a bin that received no item is not in it, so the
\* volume calculate_statistics divides by is that of non-empty bins.
C28_NoEmptyBins ==
    /\ \A k \in 1..Len(current_configuration) :
           /\ Len(current_configuration[k].items) >= 1
           /\ current_configuration[k].id = k - 1
    /\ (pc = "done" /\ bin # NoBin /\ Len(bin.items) = 0) =>
           bin \notin Range(current_configuration)
    /\ LET s == calculate_statistics(heap, current_configuration)
           v == non_empty_volume(current_configuration)
       IN  s.average_volume = IF v > 0 THEN DDiv(DInt(s.loaded_volume), DInt(v)) ELSE DInt(0)

\* a pack that ended on a bin that received no item, after it recorded a bin
C28_Witness ==
    /\ pc = "done"
    /\ Len(current_configuration) >= 1
    /\ bin # NoBin
    /\ Len(bin.items) = 0
    /\ items_to_pack # <<>>

---------------------------------------------------------------------------
(* Committed items keep their place *)

\* the items committed to a bin of the configuration or to the bin being filled
committed == UNION {Range(b.items) : b \in AllBins}

\* C29: during a pack, once an item is committed to a bin, no later step (a placement
\* attempt of another item, successful or failed or raising, in the same or in a later
\* bin) changes its position or its size, and it stays committed.
C29_Frozen ==
    [][(pc = "pack" \/ pc = "while" \/ pc = "for") =>
            \A k \in committed : /\ heap'[k].position = heap[k].position
                                 /\ heap'[k].size = heap[k].size
                                 /\ k \in committed']_vars

\* a failed attempt of an item that was moved and rotated by its trials, on a bin
\* that holds an item, after an earlier bin was recorded
C29_Witness ==
    /\ last.op \in {"try_fit", "_try_fit_multi_anchor"}
    /\ last.result = "false"
    /\ Len(bin.items) >= 1
    /\ Len(current_configuration) >= 1
    /\ last.pre.size[1] # last.pre.size[2]

---------------------------------------------------------------------------
(* The first item of a bin under the greedy strategy *)

\* the item of the last call, at the origin in rotation o, satisfies every constraint
\* on the bin the call was made on
fits_at_origin(o) ==
    LET i  == last.item
        ho == [heap EXCEPT ![i].position = <<0, 0, 0>>,
                           ![i].size = size_in_rotation(last.pre.size, o)]
    IN  \A k \in 1..Len(constraints) : /\ ~ raises(constraints[k], ho, last.pre_bin, i)
                                       /\ holds(constraints[k], ho, last.pre_bin, i)

\* C30: under the greedy strategy, an item offered to a bin that holds no items, which
\* satisfies all constraints at the origin in at least one of the four enumerated
\* orientations, is placed in that bin.
C30_EmptyBinCompleteness ==
    (strategy = "greedy" /\ last.op = "put_item" /\ Len(last.pre_bin.items) = 0) =>
        ((\E o \in 0..3 : fits_at_origin(o)) => last.result = "true")

\* what holds: the item is placed exactly when it satisfies all constraints in the
\* orientation and at the position it has
FirstItemAsItStands ==
    (strategy = "greedy" /\ last.op = "put_item" /\ last.result # "raise") =>
        (last.result = "true" <=>
            \A k \in 1..Len(constraints) : holds(constraints[k],
                                                 [heap EXCEPT ![last.item] = last.pre],
                                                 last.pre_bin, last.item))

=============================================================================
